---- MODULE Spec2Model ----
(***************************************************************************)
(* Model of the DDLC translations catalog (src/script.js): record          *)
(* normalization and validation, the localStorage cache, the data          *)
(* acquisition machine of init/loadData, and the URL / storage / control   *)
(* synchronisation of the query state.                                     *)
(*                                                                         *)
(* JavaScript strings are modelled as sequences of one-character strings,  *)
(* so that trim, toLowerCase, includes and encodeURIComponent are computed *)
(* and not assumed.  JavaScript values are records [t, s, n, a]: t is the  *)
(* typeof-like tag, s the characters of a string (or the kind of a         *)
(* number), n the integer value of a number or boolean, a the elements of  *)
(* an array, p the properties of an object.                                *)
(***************************************************************************)
EXTENDS Integers, Sequences, FiniteSets, TLC

\* ==================== BOUNDS ====================

\* Longest raw list handed to validateAndNormalizeData in the Validator runs.
MaxList == 3
\* Last tick of the model clock (Date.now()).
MaxTime == 2
\* Most entries of the session history.
MaxHist == 2
\* Most page loads (the first visit and the reloads).
MaxLoads == 2
\* Most code points of a string handed to truncateUnicode in the Truncation runs.
MaxText == 6

VARIABLES
  raw,        \* Normalizer runs: the raw record handed to normalizeMod
  norm,       \* Normalizer runs: the value normalizeMod returned
  normDone,   \* Normalizer runs: normalizeMod has returned
  vdata,      \* Validator runs: the parsed tree handed to validateAndNormalizeData
  vout,       \* Validator runs: the catalog validateAndNormalizeData returned
  vDone,      \* Validator runs: validateAndNormalizeData has returned
  state,      \* the global state object of script.js
  els,        \* the DOM: control values, hidden flags, rendered cards
  store,      \* localStorage: the cache payload, its expiry, the filters
  history,    \* the session history: entries (URLs) and the current index
  now,        \* Date.now()
  pc,         \* where init() stands: boot, fetching, reading, ready, error
  jsyaml,     \* window.jsyaml is loaded
  datafile,   \* the tree jsyaml.load yields for data.yaml as the server holds it
  quota,      \* localStorage.setItem: "ok" succeeds, "full" throws, "flaky" either
  timer,      \* debounce of onSearchInput: its timeoutId and the pending timers
  loads,      \* page loads so far
  trace,      \* what this page load did: live outcome, cache reads, writes
  clog,       \* Cache runs: the last setCachedData / getCachedData calls
  tin,        \* Truncation runs: the arguments handed to truncateUnicode
  tout,       \* Truncation runs: the object truncateUnicode returned
  tDone,      \* Truncation runs: truncateUnicode has returned
  router      \* the SPAQueryRouter object and the sections of the page

normVars == << raw, norm, normDone >>
valVars == << vdata, vout, vDone >>
truncVars == << tin, tout, tDone >>
appVars ==
  << state, els, store, history, now, pc, jsyaml, datafile, quota, timer, loads, trace,
     clog >>
vars == << raw, norm, normDone, vdata, vout, vDone,
           state, els, store, history, now, pc, jsyaml, datafile, quota, timer, loads, trace,
           clog, tin, tout, tDone, router >>

\* ==================== STRINGS ====================

\* Characters String.prototype.trim() removes (the model's alphabet has one).
Whitespace == {" "}

RECURSIVE TrimStart(_)
\* String.prototype.trim(), leading part.
TrimStart(s) ==
  IF s = <<>> THEN <<>>
  ELSE IF Head(s) \in Whitespace THEN TrimStart(Tail(s)) ELSE s

RECURSIVE TrimEnd(_)
\* String.prototype.trim(), trailing part.
TrimEnd(s) ==
  IF s = <<>> THEN <<>>
  ELSE IF s[Len(s)] \in Whitespace THEN TrimEnd(SubSeq(s, 1, Len(s) - 1)) ELSE s

\* String.prototype.trim()
Trim(s) == TrimEnd(TrimStart(s))

\* One character of String.prototype.toLowerCase().
LowerChar(c) ==
  CASE c = "A" -> "a"
    [] c = "B" -> "b"
    [] c = "Z" -> "z"
    [] OTHER -> c

\* String.prototype.toLowerCase()
ToLowerCase(s) == [i \in 1..Len(s) |-> LowerChar(s[i])]

RECURSIVE Join(_, _)
\* Array.prototype.join(sep) over an array of strings.
Join(parts, sep) ==
  IF parts = <<>> THEN <<>>
  ELSE IF Len(parts) = 1 THEN parts[1]
  ELSE parts[1] \o sep \o Join(Tail(parts), sep)

\* String.prototype.includes(q): q occurs in s as a contiguous substring.
Includes(s, q) ==
  \E i \in 0..(Len(s) - Len(q)) : SubSeq(s, i + 1, i + Len(q)) = q

Digits == {"0", "1", "2", "3", "4", "5", "6", "7", "8", "9"}

DigitVal(c) ==
  CASE c = "0" -> 0 [] c = "1" -> 1 [] c = "2" -> 2 [] c = "3" -> 3
    [] c = "4" -> 4 [] c = "5" -> 5 [] c = "6" -> 6 [] c = "7" -> 7
    [] c = "8" -> 8 [] c = "9" -> 9 [] OTHER -> 0

RECURSIVE DecimalValue(_)
\* Value of a string of decimal digits.
DecimalValue(s) ==
  IF s = <<>> THEN 0
  ELSE 10 * DecimalValue(SubSeq(s, 1, Len(s) - 1)) + DigitVal(s[Len(s)])

DigitChar(d) ==
  CASE d = 0 -> "0" [] d = 1 -> "1" [] d = 2 -> "2" [] d = 3 -> "3"
    [] d = 4 -> "4" [] d = 5 -> "5" [] d = 6 -> "6" [] d = 7 -> "7"
    [] d = 8 -> "8" [] OTHER -> "9"

RECURSIVE Numeral(_)
\* String(k) for a non-negative integer k.
Numeral(k) ==
  IF k < 10 THEN << DigitChar(k) >>
  ELSE Append(Numeral(k \div 10), DigitChar(k % 10))

IsDigits(s) == s # <<>> /\ \A i \in 1..Len(s) : s[i] \in Digits

\* ==================== JAVASCRIPT VALUES ====================

Undefined == [t |-> "undefined", s |-> <<>>, n |-> 0, a |-> <<>>, p |-> <<>>]
Null == [t |-> "null", s |-> <<>>, n |-> 0, a |-> <<>>, p |-> <<>>]
BoolV(b) == [t |-> "boolean", s |-> <<>>, n |-> IF b THEN 1 ELSE 0, a |-> <<>>, p |-> <<>>]
NumV(k) == [t |-> "number", s |-> <<"finite">>, n |-> k, a |-> <<>>, p |-> <<>>]
NaN == [t |-> "number", s |-> <<"NaN">>, n |-> 0, a |-> <<>>, p |-> <<>>]
Infinity == [t |-> "number", s |-> <<"Infinity">>, n |-> 0, a |-> <<>>, p |-> <<>>]
StrV(str) == [t |-> "string", s |-> str, n |-> 0, a |-> <<>>, p |-> <<>>]
ArrV(elems) == [t |-> "array", s |-> <<>>, n |-> 0, a |-> elems, p |-> <<>>]
ObjV == [t |-> "object", s |-> <<>>, n |-> 0, a |-> <<>>, p |-> <<>>]
\* An object with the given properties (a function from names to values).
ObjOf(props) == [t |-> "object", s |-> <<>>, n |-> 0, a |-> <<>>, p |-> props]

\* Property read v.name: Undefined when the property is absent; arrays and
\* primitive values carry none of the properties the program reads.
Get(v, name) ==
  IF v.t = "object" /\ name \in DOMAIN v.p THEN v.p[name] ELSE Undefined

\* JavaScript truthiness (ToBoolean).
Truthy(v) ==
  CASE v.t \in {"undefined", "null"} -> FALSE
    [] v.t = "boolean" -> v.n = 1
    [] v.t = "number" -> v.s = <<"Infinity">> \/ (v.s = <<"finite">> /\ v.n # 0)
    [] v.t = "string" -> v.s # <<>>
    [] OTHER -> TRUE

\* Number.isFinite on a number value.
IsFiniteNumber(v) == v.t = "number" /\ v.s = <<"finite">>

\* Number(str): surrounding whitespace is ignored, the empty string is 0,
\* a decimal numeral is its value, anything else is NaN.
NumberOfString(str) ==
  LET body == Trim(str) IN
  IF body = <<>> THEN NumV(0)
  ELSE IF IsDigits(body) THEN NumV(DecimalValue(body))
  ELSE NaN

\* ==================== UTILITIES ====================


\* The timers of a page on which none was set: timeoutId is undefined (0)
\* and no timer is pending.
NoTimer == [id |-> 0, pending |-> {}]

\* The identifier setTimeout returns: one no pending timer has.
NewTimerId(pending) == CHOOSE n \in 1..(Cardinality(pending) + 1) : n \notin pending

\* The function debounce returns, without its clearTimeout call.
debounce_NoClear(tm) ==
  [id |-> NewTimerId(tm.pending), pending |-> tm.pending \cup {NewTimerId(tm.pending)}]

\* The function debounce(fn, delay) returns, on the timers tm:
\* clearTimeout(timeoutId); timeoutId = setTimeout(...).
debounce(tm) ==
  LET cleared == tm.pending \ {tm.id}
  IN [id |-> NewTimerId(cleared), pending |-> cleared \cup {NewTimerId(cleared)}]

\* safeToString without the trailing .trim().
safeToString_NoTrim(v) == IF v.t = "string" THEN v.s ELSE <<>>

\* safeToString(v, fallback = '')
safeToString(v) == Trim(IF v.t = "string" THEN v.s ELSE <<>>)

\* A JavaScript string is the sequence of its UTF-16 code units.  A character
\* outside the Basic Multilingual Plane is two units, written "hi" (its high
\* surrogate) and "lo" (its low surrogate); every other unit is a character.
RECURSIVE CodePoints(_)
\* [...input]: the string iterator yields one string per code point, a high
\* surrogate followed by a low surrogate together, any other unit alone.
CodePoints(str) ==
  IF str = <<>> THEN <<>>
  ELSE IF Len(str) >= 2 /\ str[1] = "hi" /\ str[2] = "lo"
       THEN << SubSeq(str, 1, 2) >> \o CodePoints(SubSeq(str, 3, Len(str)))
       ELSE << SubSeq(str, 1, 1) >> \o CodePoints(Tail(str))

\* String.prototype.lastIndexOf(c): the 0-based code-unit index of the last
\* occurrence of c, -1 when there is none.
LastIndexOf(str, c) ==
  LET hits == { i \in 1..Len(str) : str[i] = c }
  IN IF hits = {} THEN -1 ELSE (CHOOSE i \in hits : \A j \in hits : j <= i) - 1

\* DISPLAY_LIMITS.ellipsis
Ellipsis == << "..." >>

\* truncateUnicode cutting with input.slice(0, maxChars), by code units.
truncateUnicode_ByUnits(str, maxChars, preserveWords, ellipsis) ==
  LET input == safeToString(str)
      cut == SubSeq(input, 1, maxChars)
      lastSpace == LastIndexOf(cut, " ")
      sliced == IF preserveWords /\ 10 * lastSpace > maxChars * 6
                THEN SubSeq(cut, 1, lastSpace) ELSE cut
  IN IF input = <<>> THEN [text |-> <<>>, truncated |-> FALSE]
     ELSE IF Len(input) <= maxChars THEN [text |-> input, truncated |-> FALSE]
     ELSE [text |-> sliced \o ellipsis, truncated |-> TRUE]

\* truncateUnicode(str, maxChars, preserveWords, ellipsis).  The comparison
\* lastSpace > maxChars * 0.6 is taken over the rationals, in tenths.
truncateUnicode(str, maxChars, preserveWords, ellipsis) ==
  LET input == safeToString(str)
      codepoints == CodePoints(input)
      cut == Join(SubSeq(codepoints, 1, maxChars), <<>>)
      lastSpace == LastIndexOf(cut, " ")
      sliced == IF preserveWords /\ 10 * lastSpace > maxChars * 6
                THEN SubSeq(cut, 1, lastSpace) ELSE cut
  IN IF input = <<>> THEN [text |-> <<>>, truncated |-> FALSE]
     ELSE IF Len(codepoints) <= maxChars THEN [text |-> input, truncated |-> FALSE]
     ELSE [text |-> sliced \o ellipsis, truncated |-> TRUE]

\* toArray(val)
toArray(val) ==
  IF ~Truthy(val) THEN <<>>
  ELSE IF val.t = "array" THEN val.a
  ELSE <<val>>

\* toArray(x).map(safeToString).filter(Boolean)
StringList(val) ==
  LET arr == toArray(val)
      mapped == [i \in 1..Len(arr) |-> safeToString(arr[i])]
      NonEmpty(x) == x # <<>>
  IN SelectSeq(mapped, NonEmpty)

\* parseDateISO(str): new Date(str).getTime(), null when the date is invalid.
\* The engine's date grammar is represented by decimal numerals: a string of
\* digits is a valid date whose timestamp is its value, any other string is
\* an invalid date.  The result is the timestamp as a number value, or Null.
parseDateISO(str) ==
  IF IsDigits(str) THEN NumV(DecimalValue(str)) ELSE Null

\* encodeURIComponent on one character: unreserved characters are kept,
\* the space is percent-encoded.
EncodeChar(c) == IF c = " " THEN <<"%", "2", "0">> ELSE <<c>>

RECURSIVE encodeURIComponent(_)
encodeURIComponent(s) ==
  IF s = <<>> THEN <<>> ELSE EncodeChar(Head(s)) \o encodeURIComponent(Tail(s))

\* getDriveViewUrl(imageId); the fixed prefix is abbreviated to one token.
getDriveViewUrl(imageId) == <<"view:">> \o encodeURIComponent(imageId)

\* getDriveDownloadUrl(fileId); the fixed prefix is abbreviated to one token.
getDriveDownloadUrl(fileId) == <<"download:">> \o encodeURIComponent(fileId)

\* buildSearchHaystack(mod), applied to the normalized record: name,
\* description, original_author are strings and tags an array of strings.
buildSearchHaystack(name, description, original_author, tags) ==
  LET fields == << name, description, original_author, Join(tags, <<" ">>) >>
      NonEmpty(x) == x # <<>>
  IN ToLowerCase(Join(SelectSeq(fields, NonEmpty), <<" ", "|", " ">>))

\* ==================== DATA NORMALIZATION ====================

\* The fields normalizeMod reads from a raw record.
MandatoryFields ==
  {"id", "name", "description", "status", "release_date", "original_author"}
OptionalFields ==
  {"image", "image_id", "file_id", "drive_url", "source_url", "mirrors",
   "tags", "warnings", "size_mb"}
RawFields == MandatoryFields \cup OptionalFields

\* The rejection value of normalizeMod (JavaScript null).
Rejected == Null

\* The mandatory-field test of normalizeMod:
\* !id || !name || !description || !status || !release_date || !original_author
AnyMandatoryEmpty(mod) ==
  \/ safeToString(Get(mod, "id")) = <<>>
  \/ safeToString(Get(mod, "name")) = <<>>
  \/ safeToString(Get(mod, "description")) = <<>>
  \/ safeToString(Get(mod, "status")) = <<>>
  \/ safeToString(Get(mod, "release_date")) = <<>>
  \/ safeToString(Get(mod, "original_author")) = <<>>

\* The size_mb coercion of normalizeMod.
CoerceSizeMb(v) ==
  IF IsFiniteNumber(v) THEN v
  ELSE IF v.t = "string"
       THEN (LET k == NumberOfString(v.s) IN IF IsFiniteNumber(k) THEN k ELSE Null)
       ELSE Null

\* normalizeMod with the identifier field taking precedence over the URL field.
normalizeMod_IdentifierFirst(mod) ==
  IF AnyMandatoryEmpty(mod) THEN Rejected
  ELSE
    LET name == safeToString(Get(mod, "name"))
        description == safeToString(Get(mod, "description"))
        original_author == safeToString(Get(mod, "original_author"))
        release_date == safeToString(Get(mod, "release_date"))
        image == safeToString(Get(mod, "image"))
        image_id == safeToString(Get(mod, "image_id"))
        file_id == safeToString(Get(mod, "file_id"))
        drive_url == safeToString(Get(mod, "drive_url"))
        tags == StringList(Get(mod, "tags"))
    IN [ id |-> safeToString(Get(mod, "id")),
         name |-> name,
         description |-> description,
         status |-> safeToString(Get(mod, "status")),
         release_date |-> release_date,
         releaseDateMs |-> parseDateISO(release_date),
         original_author |-> original_author,
         imageUrl |-> IF image_id # <<>> THEN getDriveViewUrl(image_id)
                      ELSE image,
         downloadUrl |-> IF file_id # <<>> THEN getDriveDownloadUrl(file_id)
                         ELSE drive_url,
         source_url |-> safeToString(Get(mod, "source_url")),
         mirrors |-> StringList(Get(mod, "mirrors")),
         tags |-> tags,
         warnings |-> StringList(Get(mod, "warnings")),
         size_mb |-> CoerceSizeMb(Get(mod, "size_mb")),
         _haystack |-> buildSearchHaystack(name, description, original_author, tags) ]

\* normalizeMod(mod): mod is a JavaScript value of type object (an array
\* included); an absent property reads as Undefined.
normalizeMod(mod) ==
  IF AnyMandatoryEmpty(mod) THEN Rejected
  ELSE
    LET name == safeToString(Get(mod, "name"))
        description == safeToString(Get(mod, "description"))
        original_author == safeToString(Get(mod, "original_author"))
        release_date == safeToString(Get(mod, "release_date"))
        image == safeToString(Get(mod, "image"))
        image_id == safeToString(Get(mod, "image_id"))
        file_id == safeToString(Get(mod, "file_id"))
        drive_url == safeToString(Get(mod, "drive_url"))
        tags == StringList(Get(mod, "tags"))
    IN [ id |-> safeToString(Get(mod, "id")),
         name |-> name,
         description |-> description,
         status |-> safeToString(Get(mod, "status")),
         release_date |-> release_date,
         releaseDateMs |-> parseDateISO(release_date),
         original_author |-> original_author,
         imageUrl |-> IF image # <<>> THEN image
                      ELSE IF image_id # <<>> THEN getDriveViewUrl(image_id)
                      ELSE <<>>,
         downloadUrl |-> IF drive_url # <<>> THEN drive_url
                         ELSE IF file_id # <<>> THEN getDriveDownloadUrl(file_id)
                         ELSE <<>>,
         source_url |-> safeToString(Get(mod, "source_url")),
         mirrors |-> StringList(Get(mod, "mirrors")),
         tags |-> tags,
         warnings |-> StringList(Get(mod, "warnings")),
         size_mb |-> CoerceSizeMb(Get(mod, "size_mb")),
         _haystack |-> buildSearchHaystack(name, description, original_author, tags) ]

\* A raw record: every field normalizeMod reads, absent ones Undefined.
RawRecord(id, name, description, status, release_date, original_author) ==
  ObjOf([f \in RawFields |->
     CASE f = "id" -> id
       [] f = "name" -> name
       [] f = "description" -> description
       [] f = "status" -> status
       [] f = "release_date" -> release_date
       [] f = "original_author" -> original_author
       [] OTHER -> Undefined])

\* ==================== CONSTANTS ====================

\* CACHE_DURATION (one hour), counted in ticks of the model clock.
CACHE_DURATION == 1

\* STATUS.COMPLETED (the Russian word for 'completed'), abbreviated to two
\* letters of the model's alphabet.
STATUS_COMPLETED == <<"Z", "a">>

\* DEFAULTS
DEFAULTS ==
  [ query |-> StrV(<<>>), status |-> StrV(<<"all">>), sort |-> StrV(<<"date_desc">>) ]

\* ==================== STATISTICS ====================

\* isCompletedStatus(status), status being a string of a normalized record.
isCompletedStatus(status) ==
  ToLowerCase(safeToString(StrV(status))) = ToLowerCase(STATUS_COMPLETED)

\* calculateStats counting as completed only the status that equals the
\* literal letter for letter.
calculateStats_ExactCase(mods) ==
  [ total |-> Len(mods),
    completed |-> Cardinality({ i \in 1..Len(mods) : mods[i].status = STATUS_COMPLETED }),
    inProgress |-> Cardinality({ i \in 1..Len(mods) : mods[i].status # STATUS_COMPLETED }) ]

\* calculateStats(mods)
calculateStats(mods) ==
  [ total |-> Len(mods),
    completed |-> Cardinality({ i \in 1..Len(mods) : isCompletedStatus(mods[i].status) }),
    inProgress |-> Cardinality({ i \in 1..Len(mods) : ~isCompletedStatus(mods[i].status) }) ]

\* ==================== SORTING ====================

\* a.releaseDateMs ?? fallback, as an extended number: inf is -1, 0 or 1.
DateKey(ms, fallbackInf) ==
  IF ms = Null THEN [inf |-> fallbackInf, n |-> 0] ELSE [inf |-> 0, n |-> ms.n]

\* The sign Array.prototype.sort reads from the comparator value x - y;
\* Infinity - Infinity is NaN, which sort treats as 0.
SubSign(x, y) ==
  IF x.inf # 0 /\ y.inf # 0 THEN (IF x.inf = y.inf THEN 0 ELSE x.inf)
  ELSE IF x.inf # 0 THEN x.inf
  ELSE IF y.inf # 0 THEN 0 - y.inf
  ELSE IF x.n < y.n THEN -1 ELSE IF x.n > y.n THEN 1 ELSE 0

\* Collation rank of a character under localeCompare(_, 'ru',
\* {sensitivity: 'base'}): letter case is ignored.
CollationRank(c) ==
  CASE c = " " -> 0
    [] c \in {"a", "A"} -> 1
    [] c \in {"b", "B"} -> 2
    [] c \in {"z", "Z"} -> 3
    [] OTHER -> 4

RECURSIVE localeCompare(_, _)
\* x.localeCompare(y, 'ru', {sensitivity: 'base'}) as a sign.
localeCompare(x, y) ==
  IF x = <<>> /\ y = <<>> THEN 0
  ELSE IF x = <<>> THEN -1
  ELSE IF y = <<>> THEN 1
  ELSE IF CollationRank(Head(x)) < CollationRank(Head(y)) THEN -1
  ELSE IF CollationRank(Head(x)) > CollationRank(Head(y)) THEN 1
  ELSE localeCompare(Tail(x), Tail(y))

\* The keys of the sorters object.
SorterKeys == {<<"date_desc">>, <<"date_asc">>, <<"name_asc">>, <<"name_desc">>}

\* Names the sorters object inherits from Object.prototype whose value is a
\* function.
InheritedFunctions == {<<"constructor">>, <<"toString">>}

\* The name under which the sorters object yields Object.prototype itself:
\* a truthy value that is not callable.
ProtoKey == <<"__proto__">>

\* sorters.date_asc with a missing timestamp read as -Infinity, as in
\* date_desc.
sorters_NullsFirstAscending(key, a, b) ==
  CASE key = <<"date_desc">> ->
         SubSign(DateKey(b.releaseDateMs, -1), DateKey(a.releaseDateMs, -1))
    [] key = <<"date_asc">> ->
         SubSign(DateKey(a.releaseDateMs, -1), DateKey(b.releaseDateMs, -1))
    [] key = <<"name_asc">> -> localeCompare(a.name, b.name)
    [] key = <<"name_desc">> -> localeCompare(b.name, a.name)
    [] OTHER -> 0

\* sorters[key](a, b) as the sign Array.prototype.sort reads; an inherited
\* function called as comparator returns a value that converts to NaN,
\* read as 0.
sorters(key, a, b) ==
  CASE key = <<"date_desc">> ->
         SubSign(DateKey(b.releaseDateMs, -1), DateKey(a.releaseDateMs, -1))
    [] key = <<"date_asc">> ->
         SubSign(DateKey(a.releaseDateMs, 1), DateKey(b.releaseDateMs, 1))
    [] key = <<"name_asc">> -> localeCompare(a.name, b.name)
    [] key = <<"name_desc">> -> localeCompare(b.name, a.name)
    [] OTHER -> 0

\* String(v) for the values the query state can hold.
ToStringJS(v) ==
  CASE v.t = "string" -> v.s
    [] v.t = "number" /\ v.s = <<"finite">> /\ v.n >= 0 -> Numeral(v.n)
    [] OTHER -> << v.t >>

\* sorters[state.sort] || sorters.date_desc: the name of the property read,
\* own or inherited, when its value is truthy, date_desc otherwise.
SorterFor(sort) ==
  IF ToStringJS(sort) \in SorterKeys \cup InheritedFunctions \cup {ProtoKey}
  THEN ToStringJS(sort)
  ELSE <<"date_desc">>

\* One insertion of a sort that is not stable: x goes before the first
\* element that the comparator does not put before it.
InsertSorted_Unstable(sorted, x, key) ==
  LET later == { i \in 1..Len(sorted) : sorters(key, sorted[i], x) >= 0 }
      pos == IF later = {} THEN Len(sorted) + 1
             ELSE CHOOSE i \in later : \A j \in later : i <= j
  IN SubSeq(sorted, 1, pos - 1) \o << x >> \o SubSeq(sorted, pos, Len(sorted))

\* One insertion of the stable sort: x goes before the first element that
\* the comparator puts strictly after it.
InsertSorted(sorted, x, key) ==
  LET later == { i \in 1..Len(sorted) : sorters(key, sorted[i], x) > 0 }
      pos == IF later = {} THEN Len(sorted) + 1
             ELSE CHOOSE i \in later : \A j \in later : i <= j
  IN SubSeq(sorted, 1, pos - 1) \o << x >> \o SubSeq(sorted, pos, Len(sorted))

RECURSIVE StableSort(_, _, _)
\* Array.prototype.sort(sorter): stable; the items are inserted in their
\* original order.
StableSort(items, sorted, key) ==
  IF items = <<>> THEN sorted
  ELSE StableSort(Tail(items), InsertSorted(sorted, Head(items), key), key)

\* applyFiltersAndSort comparing the status without regard to letter case.
applyFiltersAndSort_StatusAnyCase(st) ==
  IF st.query.t # "string" \/ SorterFor(st.sort) = ProtoKey
  THEN [threw |-> TRUE, result |-> <<>>, mods |-> st.mods]
  ELSE
    LET q == ToLowerCase(st.query.s)
        ByQuery(m) == Includes(m._haystack, q)
        ByStatus(m) == ToLowerCase(safeToString(StrV(m.status))) = ToLowerCase(ToStringJS(st.status))
        r1 == IF q # <<>> THEN SelectSeq(st.mods, ByQuery) ELSE st.mods
        r2 == IF st.status # StrV(<<"all">>) THEN SelectSeq(r1, ByStatus) ELSE r1
    IN [ threw |-> FALSE, result |-> StableSort(r2, <<>>, SorterFor(st.sort)),
         mods |-> st.mods ]

\* applyFiltersAndSort sorting without result.slice(): when no filter made a
\* new array, the array sorted is state.mods itself.
applyFiltersAndSort_InPlace(st) ==
  IF st.query.t # "string" \/ SorterFor(st.sort) = ProtoKey
  THEN [threw |-> TRUE, result |-> <<>>, mods |-> st.mods]
  ELSE
    LET q == ToLowerCase(st.query.s)
        ByQuery(m) == Includes(m._haystack, q)
        ByStatus(m) == StrV(safeToString(StrV(m.status))) = st.status
        r1 == IF q # <<>> THEN SelectSeq(st.mods, ByQuery) ELSE st.mods
        r2 == IF st.status # StrV(<<"all">>) THEN SelectSeq(r1, ByStatus) ELSE r1
        sorted == StableSort(r2, <<>>, SorterFor(st.sort))
    IN [ threw |-> FALSE, result |-> sorted,
         mods |-> IF q = <<>> /\ st.status = StrV(<<"all">>) THEN sorted ELSE st.mods ]

\* applyFiltersAndSort() on the state st: result is the array returned and
\* mods the array state.mods holds afterwards (filter and slice make new
\* arrays, so the sort never works on state.mods); threw is the TypeError of
\* state.query.toLowerCase() on a query that is not a string, or of sort on
\* a comparator that is not callable.
applyFiltersAndSort(st) ==
  IF st.query.t # "string" \/ SorterFor(st.sort) = ProtoKey
  THEN [threw |-> TRUE, result |-> <<>>, mods |-> st.mods]
  ELSE
    LET q == ToLowerCase(st.query.s)
        ByQuery(m) == Includes(m._haystack, q)
        ByStatus(m) == StrV(safeToString(StrV(m.status))) = st.status
        r1 == IF q # <<>> THEN SelectSeq(st.mods, ByQuery) ELSE st.mods
        r2 == IF st.status # StrV(<<"all">>) THEN SelectSeq(r1, ByStatus) ELSE r1
    IN [ threw |-> FALSE, result |-> StableSort(r2, <<>>, SorterFor(st.sort)),
         mods |-> st.mods ]

\* ==================== STATE & URL SYNC ====================

\* A URL of the page: the parameters q, status and sort and the router's page
\* parameter, each Null when absent, and the fragment.
Url(q, status, sort, page, hash) ==
  [q |-> q, status |-> status, sort |-> sort, page |-> page, hash |-> hash]

\* location.search is the empty string.
SearchEmpty(url) ==
  url.q = Null /\ url.status = Null /\ url.sort = Null /\ url.page = Null

\* The serializer of URLSearchParams (application/x-www-form-urlencoded) on
\* one character: the space becomes '+', the characters with a meaning in a
\* query string are percent-encoded (one token each), the others are kept.
FormEncodeChar(c) ==
  CASE c = " " -> "+"
    [] c = "+" -> "%2B"
    [] c = "&" -> "%26"
    [] c = "=" -> "%3D"
    [] c = "%" -> "%25"
    [] c = "#" -> "%23"
    [] c = "?" -> "%3F"
    [] OTHER -> c

\* The parser of URLSearchParams on one character of a name or value.
FormDecodeChar(c) ==
  CASE c = "+" -> " "
    [] c = "%2B" -> "+"
    [] c = "%26" -> "&"
    [] c = "%3D" -> "="
    [] c = "%25" -> "%"
    [] c = "%23" -> "#"
    [] c = "%3F" -> "?"
    [] OTHER -> c

RECURSIVE FormEncode(_)
\* The serializer on a string.
FormEncode(str) ==
  IF str = <<>> THEN <<>> ELSE <<FormEncodeChar(Head(str))>> \o FormEncode(Tail(str))

RECURSIVE FormDecode(_)
\* The parser on a name or value.
FormDecode(str) ==
  IF str = <<>> THEN <<>> ELSE <<FormDecodeChar(Head(str))>> \o FormDecode(Tail(str))

\* params.toString() of writeStateToURL: q, status and sort are always set,
\* in this order, each value converted to a string.
SearchString(st) ==
  <<"q", "=">> \o FormEncode(ToStringJS(st.query))
  \o <<"&", "status", "=">> \o FormEncode(ToStringJS(st.status))
  \o <<"&", "sort", "=">> \o FormEncode(ToStringJS(st.sort))

RECURSIVE SplitOn(_, _, _, _)
\* The pieces of str between the occurrences of sep (cur is the piece being
\* read, acc the pieces read).
SplitOn(str, sep, cur, acc) ==
  IF str = <<>> THEN Append(acc, cur)
  ELSE IF Head(str) = sep THEN SplitOn(Tail(str), sep, <<>>, Append(acc, cur))
  ELSE SplitOn(Tail(str), sep, Append(cur, Head(str)), acc)

\* The name and the value of one piece name=value of a query string: the
\* name ends at the first '=', a piece without '=' has the empty value.
ParamOf(piece) ==
  LET eqs == { i \in 1..Len(piece) : piece[i] = "=" }
      at == IF eqs = {} THEN Len(piece) + 1 ELSE CHOOSE i \in eqs : \A j \in eqs : i <= j
  IN [ name |-> FormDecode(SubSeq(piece, 1, at - 1)),
       value |-> FormDecode(SubSeq(piece, at + 1, Len(piece))) ]

\* new URLSearchParams(search): the parameters of location.search in order;
\* a leading '?' and empty pieces are skipped.
ParseSearch(search) ==
  LET body == IF search # <<>> /\ Head(search) = "?" THEN Tail(search) ELSE search
      NonEmpty(piece) == piece # <<>>
      pieces == SelectSeq(SplitOn(body, "&", <<>>, <<>>), NonEmpty)
  IN [i \in 1..Len(pieces) |-> ParamOf(pieces[i])]

\* params.get(name): the value of the first parameter of that name, or null.
ParamGet(params, name) ==
  LET hits == { i \in 1..Len(params) : params[i].name = <<name>> }
  IN IF hits = {} THEN Null
     ELSE StrV(params[CHOOSE i \in hits : \A j \in hits : i <= j].value)

\* The URL whose location.search and location.hash are the given texts.
UrlOfSearch(search, hash) ==
  LET params == ParseSearch(search)
  IN Url(ParamGet(params, "q"), ParamGet(params, "status"), ParamGet(params, "sort"),
         ParamGet(params, "page"), hash)

\* readStateFromURL() reading present-but-empty parameters as missing.
readStateFromURL_EmptyAsMissing(st, url) ==
  [st EXCEPT !.query = IF Truthy(url.q) THEN url.q ELSE DEFAULTS.query,
             !.status = IF Truthy(url.status) THEN url.status ELSE DEFAULTS.status,
             !.sort = IF Truthy(url.sort) THEN url.sort ELSE DEFAULTS.sort]

\* readStateFromURL(), on the state st and the current URL.
readStateFromURL(st, url) ==
  [st EXCEPT !.query = IF url.q # Null THEN url.q ELSE DEFAULTS.query,
             !.status = IF url.status # Null THEN url.status ELSE DEFAULTS.status,
             !.sort = IF url.sort # Null THEN url.sort ELSE DEFAULTS.sort]

\* writeStateToURL leaving out the parameters whose value is empty.
writeStateToURL_SkipEmpty(st, url) ==
  Url(IF ToStringJS(st.query) = <<>> THEN Null ELSE StrV(ToStringJS(st.query)),
      IF ToStringJS(st.status) = <<>> THEN Null ELSE StrV(ToStringJS(st.status)),
      IF ToStringJS(st.sort) = <<>> THEN Null ELSE StrV(ToStringJS(st.sort)),
      Null, url.hash)

\* The URL writeStateToURL builds: a fresh URLSearchParams with q, status
\* and sort, behind the path and before the fragment.
writeStateToURL(st, url) ==
  UrlOfSearch(<<"?">> \o SearchString(st), url.hash)

\* The session history after writeStateToURL ignoring its replace argument
\* and pushing the URL.
historyWrite_AlwaysPush(h, url, replace) ==
  [entries |-> Append(SubSeq(h.entries, 1, h.index), url), index |-> h.index + 1]

\* The last statement of writeStateToURL(replace) on the session history h:
\* history.replaceState gives the current entry the URL, history.pushState
\* adds an entry behind the current one, dropping the entries after it.
historyWrite(h, url, replace) ==
  IF replace THEN [h EXCEPT !.entries[h.index] = url]
  ELSE [entries |-> Append(SubSeq(h.entries, 1, h.index), url), index |-> h.index + 1]

\* A string holding JSON.stringify(v).
JsonText(v) ==
  [t |-> "string", s |-> <<"json">>, n |-> 0, a |-> <<>>, p |-> <<>>, v |-> v]

\* JSON.stringify of a number: NaN and the infinities become null.
JsonNumber(v) == IF v.t = "number" /\ ~IsFiniteNumber(v) THEN Null ELSE v

\* JSON.parse(text): the value when the text is JSON; a SyntaxError is thrown
\* otherwise.
IsJson(text) == "v" \in DOMAIN text
JsonParse(text) == text.v

\* v || d
Or(v, d) == IF Truthy(v) THEN v ELSE d

\* The entry saveFiltersToStorage writes.
FiltersText(st) ==
  JsonText(ObjOf([ query |-> JsonNumber(st.query),
                   status |-> JsonNumber(st.status),
                   sort |-> JsonNumber(st.sort) ]))

\* saveFiltersToStorage(): written says whether setItem succeeded (a failure
\* is caught and logged).
saveFiltersToStorage(sto, st, written) ==
  IF written THEN [sto EXCEPT !.filters = FiltersText(st)] ELSE sto

\* loadFiltersFromStorage(): Null, or the stored triple with defaults.
loadFiltersFromStorage(sto) ==
  LET stored == sto.filters IN
  IF ~Truthy(stored) THEN Null
  ELSE IF ~IsJson(stored) THEN Null
  ELSE IF JsonParse(stored).t \in {"null", "undefined"} THEN Null
  ELSE [ query |-> Or(Get(JsonParse(stored), "query"), DEFAULTS.query),
         status |-> Or(Get(JsonParse(stored), "status"), DEFAULTS.status),
         sort |-> Or(Get(JsonParse(stored), "sort"), DEFAULTS.sort) ]

\* init's query state with the stored triple applied whatever the URL holds.
InitialQueryState_StoredFirst(st, url, sto) ==
  LET fromUrl == readStateFromURL(st, url)
      storedFilters == loadFiltersFromStorage(sto)
  IN IF storedFilters # Null
     THEN [fromUrl EXCEPT !.query = storedFilters.query,
                          !.status = storedFilters.status,
                          !.sort = storedFilters.sort]
     ELSE fromUrl

\* The query state init establishes before the data is loaded:
\* readStateFromURL(), then the stored triple when there is one and
\* location.search is empty.
InitialQueryState(st, url, sto) ==
  LET fromUrl == readStateFromURL(st, url)
      storedFilters == loadFiltersFromStorage(sto)
  IN IF storedFilters # Null /\ SearchEmpty(url)
     THEN [fromUrl EXCEPT !.query = storedFilters.query,
                          !.status = storedFilters.status,
                          !.sort = storedFilters.sort]
     ELSE fromUrl

\* syncControlsFromState()
syncControlsFromState(e, st) ==
  [e EXCEPT !.search = ToStringJS(st.query),
            !.statusFilter = ToStringJS(st.status),
            !.sortBy = ToStringJS(st.sort)]

\* syncStateFromControls()
syncStateFromControls(st, e) ==
  [st EXCEPT !.query = StrV(safeToString(StrV(e.search))),
             !.status = Or(StrV(safeToString(StrV(e.statusFilter))), DEFAULTS.status),
             !.sort = Or(StrV(safeToString(StrV(e.sortBy))), DEFAULTS.sort)]

\* renderMods(mods)
renderMods(e, mods) ==
  [e EXCEPT !.cards = mods, !.emptyHidden = (mods # <<>>)]

\* ==================== CACHING ====================

\* parseInt(expiry, 10) of a stored expiry.
ParseInt(text) == IF IsDigits(text.s) THEN NumV(DecimalValue(text.s)) ELSE NaN

\* getCachedData() expiring the entry at its expiry time already (>=).
getCachedData_ExpiresEarly(sto, t) ==
  IF ~Truthy(sto.cache) \/ ~Truthy(sto.expiry)
  THEN [found |-> FALSE, mods |-> <<>>, store |-> sto]
  ELSE IF IsFiniteNumber(ParseInt(sto.expiry)) /\ t >= ParseInt(sto.expiry).n
  THEN [found |-> FALSE, mods |-> <<>>,
        store |-> [sto EXCEPT !.cache = Null, !.expiry = Null]]
  ELSE IF ~IsJson(sto.cache)
  THEN [found |-> FALSE, mods |-> <<>>, store |-> sto]
  ELSE [found |-> TRUE, mods |-> JsonParse(sto.cache), store |-> sto]

\* getCachedData() leaving an expired entry in the storage.
getCachedData_KeepExpired(sto, t) ==
  IF ~Truthy(sto.cache) \/ ~Truthy(sto.expiry)
  THEN [found |-> FALSE, mods |-> <<>>, store |-> sto]
  ELSE IF IsFiniteNumber(ParseInt(sto.expiry)) /\ t > ParseInt(sto.expiry).n
  THEN [found |-> FALSE, mods |-> <<>>, store |-> sto]
  ELSE IF ~IsJson(sto.cache)
  THEN [found |-> FALSE, mods |-> <<>>, store |-> sto]
  ELSE [found |-> TRUE, mods |-> JsonParse(sto.cache), store |-> sto]

\* getCachedData() at time t: found/mods is the returned value (null when
\* not found) and sto the storage it leaves.
getCachedData(sto, t) ==
  IF ~Truthy(sto.cache) \/ ~Truthy(sto.expiry)
  THEN [found |-> FALSE, mods |-> <<>>, store |-> sto]
  ELSE IF IsFiniteNumber(ParseInt(sto.expiry)) /\ t > ParseInt(sto.expiry).n
  THEN [found |-> FALSE, mods |-> <<>>,
        store |-> [sto EXCEPT !.cache = Null, !.expiry = Null]]
  ELSE IF ~IsJson(sto.cache)
  THEN [found |-> FALSE, mods |-> <<>>, store |-> sto]
  ELSE [found |-> TRUE, mods |-> JsonParse(sto.cache), store |-> sto]

\* JSON.stringify(data) of a catalog.
CatalogText(data) ==
  JsonText([ i \in 1..Len(data) |->
               [data[i] EXCEPT !.releaseDateMs = JsonNumber(@),
                               !.size_mb = JsonNumber(@)] ])

\* setCachedData(data) at time t: w1 and w2 say whether the first and the
\* second setItem succeeded; a failure of the first skips the second.
setCachedData(sto, data, t, w1, w2) ==
  IF ~w1 THEN sto
  ELSE IF ~w2 THEN [sto EXCEPT !.cache = CatalogText(data)]
  ELSE [sto EXCEPT !.cache = CatalogText(data),
                     !.expiry = StrV(Numeral(t + CACHE_DURATION))]

\* Array.isArray(v)
IsArray(v) == v.t = "array"

\* The loop guard of validateAndNormalizeData: !item || typeof item !== 'object'
\* (typeof null and typeof [] are both 'object'; null is falsy).
SkippedAsNonObject(item) == ~Truthy(item) \/ item.t \notin {"object", "array"}

RECURSIVE ValidateLoop_NoDedup(_, _, _)
\* The loop of validateAndNormalizeData without the seenIds test.
ValidateLoop_NoDedup(list, out, seenIds) ==
  IF list = <<>> THEN out
  ELSE
    LET item == Head(list)
        nm == IF SkippedAsNonObject(item) THEN Rejected ELSE normalizeMod(item)
    IN IF nm = Rejected THEN ValidateLoop_NoDedup(Tail(list), out, seenIds)
       ELSE ValidateLoop_NoDedup(Tail(list), Append(out, nm), seenIds \cup {nm.id})

RECURSIVE ValidateLoop_StopAtInvalid(_, _, _)
\* The loop of validateAndNormalizeData leaving the loop at the first item
\* it does not accept (break in place of continue).
ValidateLoop_StopAtInvalid(list, out, seenIds) ==
  IF list = <<>> THEN out
  ELSE
    LET item == Head(list) IN
    IF SkippedAsNonObject(item) THEN out
    ELSE
      LET nm == normalizeMod(item) IN
      IF nm = Rejected THEN out
      ELSE IF nm.id \in seenIds THEN out
      ELSE ValidateLoop_StopAtInvalid(Tail(list), Append(out, nm), seenIds \cup {nm.id})

RECURSIVE ValidateLoop(_, _, _)
\* The for-of loop of validateAndNormalizeData over the remaining items,
\* with the accumulated out array and seenIds set.
ValidateLoop(list, out, seenIds) ==
  IF list = <<>> THEN out
  ELSE
    LET item == Head(list) IN
    IF SkippedAsNonObject(item) THEN ValidateLoop(Tail(list), out, seenIds)
    ELSE
      LET nm == normalizeMod(item) IN
      IF nm = Rejected THEN ValidateLoop(Tail(list), out, seenIds)
      ELSE IF nm.id \in seenIds THEN ValidateLoop(Tail(list), out, seenIds)
      ELSE ValidateLoop(Tail(list), Append(out, nm), seenIds \cup {nm.id})

\* The list validateAndNormalizeData iterates: the data itself when it is an
\* array, data.mods when that is an array; Undefined for every other shape.
CandidateList(data) ==
  IF IsArray(data) THEN data
  ELSE IF Truthy(data) /\ IsArray(Get(data, "mods")) THEN Get(data, "mods")
  ELSE Undefined

\* validateAndNormalizeData with the duplicate test left out.
validateAndNormalizeData_NoDedup(data) ==
  IF CandidateList(data) = Undefined THEN <<>>
  ELSE ValidateLoop_NoDedup(CandidateList(data).a, <<>>, {})

\* validateAndNormalizeData(data)
validateAndNormalizeData(data) ==
  IF CandidateList(data) = Undefined THEN <<>>
  ELSE ValidateLoop(CandidateList(data).a, <<>>, {})

\* ==================== LOADING & ERROR HANDLING ====================

\* The page context the handlers work on: the state object and the DOM.
Ctx(st, e) == [state |-> st, els |-> e]

\* showLoading()
showLoading(c) ==
  Ctx([c.state EXCEPT !.isLoading = TRUE],
      [c.els EXCEPT !.loadingHidden = FALSE, !.errorHidden = TRUE])

\* hideLoading() clearing the flag and leaving the indicator as it is.
hideLoading_FlagOnly(c) == Ctx([c.state EXCEPT !.isLoading = FALSE], c.els)

\* hideLoading()
hideLoading(c) ==
  Ctx([c.state EXCEPT !.isLoading = FALSE], [c.els EXCEPT !.loadingHidden = TRUE])

\* showError(message)
showError(c) ==
  Ctx([c.state EXCEPT !.hasError = TRUE], [c.els EXCEPT !.errorHidden = FALSE])

\* hideError()
hideError(c) ==
  Ctx([c.state EXCEPT !.hasError = FALSE], [c.els EXCEPT !.errorHidden = TRUE])

\* updateResults() showing the loading indicator whenever it runs.
updateResults_ShowsLoading(c, sto, written) ==
  LET filtered == applyFiltersAndSort(c.state)
      after == showLoading(Ctx([c.state EXCEPT !.mods = filtered.mods], c.els))
  IN IF filtered.threw THEN [threw |-> TRUE, ctx |-> after, store |-> sto]
     ELSE [ threw |-> FALSE,
            ctx |-> Ctx(after.state, renderMods(after.els, filtered.result)),
            store |-> saveFiltersToStorage(sto, after.state, written) ]

\* updateResults(): threw is the exception of applyFiltersAndSort, which
\* leaves the DOM and the storage as they were; written says whether the
\* setItem of saveFiltersToStorage succeeded.
updateResults(c, sto, written) ==
  LET filtered == applyFiltersAndSort(c.state)
      after == [c.state EXCEPT !.mods = filtered.mods]
  IN IF filtered.threw THEN [threw |-> TRUE, ctx |-> Ctx(after, c.els), store |-> sto]
     ELSE [ threw |-> FALSE,
            ctx |-> Ctx(after, renderMods(c.els, filtered.result)),
            store |-> saveFiltersToStorage(sto, after, written) ]

\* The catch block of init() without its hideLoading() call.
InitCatch_KeepsLoading(c) == showError(c)

\* The catch block of init(): hideLoading(); showError(...).
InitCatch(c) == showError(hideLoading(c))

\* init() from the value loadData() resolved with, taking an empty catalog
\* for a failure.
InitAfterLoad_EmptyIsError(c, sto, loaded, written) ==
  LET c1 == Ctx([c.state EXCEPT !.mods = loaded, !.stats = calculateStats(loaded)], c.els)
      c2 == hideError(hideLoading(c1))
      shown == updateResults(c2, sto, written)
  IN IF loaded = <<>> \/ shown.threw
     THEN [ctx |-> InitCatch(c2), store |-> sto, pc |-> "error"]
     ELSE [ctx |-> shown.ctx, store |-> shown.store, pc |-> "ready"]

\* init() from the value loadData() resolved with to its end.
InitAfterLoad(c, sto, loaded, written) ==
  LET c1 == Ctx([c.state EXCEPT !.mods = loaded, !.stats = calculateStats(loaded)], c.els)
      c2 == hideError(hideLoading(c1))
      shown == updateResults(c2, sto, written)
  IN IF loaded = <<>>
     THEN [ ctx |-> Ctx(c2.state, [renderMods(c2.els, <<>>) EXCEPT !.emptyHidden = FALSE]),
            store |-> sto, pc |-> "ready" ]
     ELSE IF shown.threw
     THEN [ctx |-> InitCatch(c2), store |-> sto, pc |-> "error"]
     ELSE [ctx |-> shown.ctx, store |-> shown.store, pc |-> "ready"]

\* ==================== THE PAGE ====================

\* The Normalizer variables while another component runs.
NormIdle ==
  /\ raw = Undefined
  /\ norm = Rejected
  /\ normDone = FALSE

\* The Validator variables while another component runs.
TruncIdle ==
  /\ tin = [str |-> << >>, maxChars |-> 0, preserveWords |-> FALSE]
  /\ tout = [text |-> << >>, truncated |-> FALSE]
  /\ tDone = FALSE

\* The router of a page on which no SPAQueryRouter was constructed: the
\* fields the constructor sets, the navigation in flight (none), and the
\* sections without the hidden attribute as the HTML has them.
NoPage == << >>
DefaultPage == << "mods" >>
RouterIdle ==
  router = [ started |-> FALSE, currentPage |-> NoPage, isNavigating |-> FALSE,
             toPage |-> NoPage, shown |-> {DefaultPage}, loaded |-> {} ]

ValIdle ==
  /\ vdata = Undefined
  /\ vout = <<>>
  /\ vDone = FALSE


\* The state object as declared.
StateObject ==
  [ mods |-> <<>>, query |-> DEFAULTS.query, status |-> DEFAULTS.status,
    sort |-> DEFAULTS.sort,
    stats |-> [total |-> 0, completed |-> 0, inProgress |-> 0],
    isLoading |-> FALSE, hasError |-> FALSE ]

\* The DOM of a freshly parsed page.
FreshDom ==
  [ search |-> <<>>, statusFilter |-> <<"all">>, sortBy |-> <<"date_desc">>,
    loadingHidden |-> TRUE, emptyHidden |-> TRUE, errorHidden |-> TRUE,
    cards |-> <<>> ]

\* What the page load has done so far.
FreshTrace ==
  [ fetches |-> 0, live |-> "none", cacheReads |-> 0, cacheHit |-> FALSE,
    entryAtFailure |-> FALSE, fresh |-> <<>>, setAt |-> 0, wrote |-> "none",
    before |-> [cache |-> Null, expiry |-> Null],
    usedStored |-> FALSE ]

\* The log of the Cache runs before any call: the last call (op), what the
\* last getCachedData found and returned and when, the entry it read, the
\* last setCachedData that wrote (how: the payload only, or both entries),
\* and whether an expired entry was removed since the last write.
FreshLog ==
  [ op |-> "none", found |-> FALSE, got |-> <<>>, at |-> 0,
    before |-> [cache |-> Null, expiry |-> Null],
    lastSet |-> [how |-> "none", data |-> <<>>, at |-> 0],
    evicted |-> FALSE ]

\* Whether a localStorage.setItem call returns (TRUE) or throws (FALSE).
WriteOutcomes ==
  CASE quota = "ok" -> {TRUE}
    [] quota = "full" -> {FALSE}
    [] OTHER -> BOOLEAN

\* The current URL.
Location == history.entries[history.index]

\* An unexpired, readable cache entry is stored at time t.
CacheEntryFresh(sto, t) ==
  /\ Truthy(sto.cache) /\ Truthy(sto.expiry) /\ IsJson(sto.cache)
  /\ IsFiniteNumber(ParseInt(sto.expiry)) /\ t <= ParseInt(sto.expiry).n

\* A mod record of the data file.
Mod(id, name, status, release_date) ==
  RawRecord(StrV(id), StrV(name), StrV(<<"d">>), StrV(status), StrV(release_date),
            StrV(<<"x">>))

\* The parsed trees the data file yields in the application runs: a bare
\* sequence, an object with a mods sequence, an empty sequence, and a tree
\* that is neither a sequence nor an object with one.
TreeOne ==
  ArrV(<< Mod(<<"a">>, <<"B", "a">>, STATUS_COMPLETED, <<"1", "2">>),
          Mod(<<"b">>, <<"a">>, <<"z", "a">>, <<"a", "b">>),
          Mod(<<"a">>, <<"b">>, <<"V">>, <<"3">>) >>)
TreeTwo == ObjOf([mods |-> ArrV(<< Mod(<<"b">>, <<"A", "b">>, <<"V">>, <<"7">>) >>)])
TreeEmpty == ArrV(<<>>)
TreeMalformed == StrV(<<"a">>)
WellFormedTrees == {TreeOne, TreeTwo, TreeEmpty}
\* Trees of other shapes: null (an empty file), a number, an object without
\* mods, and an object whose mods is not a sequence.
OtherShapes == { Null, NumV(1), ObjV, ObjOf([mods |-> StrV(<<"a">>)]) }
ParsedTrees == WellFormedTrees \cup {TreeMalformed}

\* location.search of the URLs a visit starts on: no query string, the
\* router's page parameter only, a query, the three parameters with empty
\* values, a status and an unknown sort key, and a query with a leading
\* space.
InitialSearches ==
  { <<>>,
    <<"?", "page", "=", "about">>,
    <<"?", "q", "=", "B">>,
    <<"?", "q", "=", "&", "status", "=", "&", "sort", "=">>,
    <<"?", "status", "=">> \o STATUS_COMPLETED \o <<"&", "sort", "=", "bogus">>,
    <<"?", "q", "=", "+", "B">> }

\* The URLs a visit starts on.
InitialUrls == { UrlOfSearch(search, <<>>) : search \in InitialSearches }

\* The filters entry found on a visit: none, text that is not JSON, JSON
\* that is no object, a triple written by an earlier visit, and objects
\* with a field that is missing or not a string.
InitialFilters ==
  { Null,
    StrV(<<"g">>),
    JsonText(Null),
    JsonText(ObjOf([ query |-> StrV(<<"a">>), status |-> StrV(<<"all">>),
                     sort |-> StrV(<<"name_asc">>) ])),
    JsonText(ObjOf([ query |-> StrV(<<>>), status |-> StrV(<<>>),
                     sort |-> StrV(<<"name_asc">>) ])),
    JsonText(ObjOf([ query |-> NumV(5) ])) }

\* The values the user gives the controls.
SearchTexts == { <<>>, <<" ", "B">> }
StatusOptions == { <<"all">>, STATUS_COMPLETED }
SortOptions == { <<"date_desc">>, <<"name_asc">> }

\* The application variables while another component runs.
AppIdle ==
  /\ state = StateObject
  /\ els = FreshDom
  /\ store = [cache |-> Null, expiry |-> Null, filters |-> Null]
  /\ history = [entries |-> << Url(Null, Null, Null, Null, <<>>) >>, index |-> 1]
  /\ now = 0
  /\ pc = "boot"
  /\ jsyaml = TRUE
  /\ datafile = Null
  /\ quota = "ok"
  /\ timer = NoTimer
  /\ loads = 1
  /\ trace = FreshTrace
  /\ clog = FreshLog

\* A visit: the localStorage holds the filters earlier visits left.
AppInit ==
  /\ state = StateObject
  /\ els = FreshDom
  /\ store \in { [cache |-> Null, expiry |-> Null, filters |-> f] : f \in InitialFilters }
  /\ history \in { [entries |-> << u >>, index |-> 1] : u \in InitialUrls }
  /\ now = 0
  /\ pc = "boot"
  /\ jsyaml = TRUE
  /\ datafile \in WellFormedTrees \cup OtherShapes
  /\ quota \in {"ok", "full"}
  /\ timer = NoTimer
  /\ loads = 1
  /\ trace = FreshTrace
  /\ clog = FreshLog
  /\ NormIdle
  /\ ValIdle
  /\ TruncIdle
  /\ RouterIdle

\* init() up to the first await: showLoading, readStateFromURL, the stored
\* filters, syncControlsFromState, bindEvents, and loadData() up to its
\* fetch; without window.jsyaml loadData throws before its try block and
\* init's catch block runs.
InitStart ==
  /\ pc = "boot"
  /\ LET c1 == showLoading(Ctx(state, els))
         st == InitialQueryState(c1.state, Location, store)
         c2 == Ctx(st, syncControlsFromState(c1.els, st))
         c3 == IF jsyaml THEN c2 ELSE InitCatch(c2)
     IN /\ state' = c3.state
        /\ els' = c3.els
        /\ pc' = IF jsyaml THEN "fetching" ELSE "error"
        /\ trace' = [trace EXCEPT
                       !.fetches = IF jsyaml THEN @ + 1 ELSE @,
                       !.live = IF jsyaml THEN @ ELSE "failed",
                       !.entryAtFailure = ~jsyaml /\ CacheEntryFresh(store, now),
                       !.before = [cache |-> store.cache, expiry |-> store.expiry],
                       !.usedStored = loadFiltersFromStorage(store) # Null /\ SearchEmpty(Location)]
  /\ UNCHANGED << store, history, now, jsyaml, datafile, quota, timer, loads, clog, normVars, valVars, truncVars, router >>

\* The catch block of loadData() followed by the rest of init(): the cache
\* is read; a hit resolves loadData with the cached catalog, a miss rethrows
\* into init's catch block.
LoadFailed ==
  LET cached == getCachedData(store, now)
      \* the cached catalog is rendered; the filters write may fail
  IN \E written \in WriteOutcomes :
       LET done == IF cached.found
                   THEN InitAfterLoad(Ctx(state, els), cached.store, cached.mods, written)
                   ELSE [ctx |-> InitCatch(Ctx(state, els)), store |-> cached.store,
                         pc |-> "error"]
       IN /\ state' = done.ctx.state
          /\ els' = done.ctx.els
          /\ store' = done.store
          /\ pc' = done.pc
          /\ trace' = [trace EXCEPT !.live = "failed",
                                    !.cacheReads = @ + 1,
                                    !.cacheHit = cached.found,
                                    !.entryAtFailure = CacheEntryFresh(store, now),
                                    !.before = [cache |-> store.cache, expiry |-> store.expiry]]
          /\ UNCHANGED << history, now, jsyaml, datafile, quota, timer, loads, clog, normVars, valVars, truncVars, router >>

\* fetch(DATA_URL) rejects, or resolves with a response that is not ok.
FetchFail ==
  /\ pc = "fetching"
  /\ LoadFailed

\* fetch(DATA_URL) resolves with an ok response; res.text() is awaited.
FetchOk ==
  /\ pc = "fetching"
  /\ pc' = "reading"
  /\ UNCHANGED << state, els, store, history, now, jsyaml, datafile, quota, timer, loads, trace,
                  clog, normVars, valVars, truncVars, router >>

\* res.text() rejects.
TextFail ==
  /\ pc = "reading"
  /\ LoadFailed

\* res.text() resolves and jsyaml.load(text) throws.
YamlError ==
  /\ pc = "reading"
  /\ LoadFailed

\* A loader that prefers an unexpired cache entry to the tree it fetched.
Loaded_CacheFirst ==
  /\ pc = "reading"
  /\ \E w1, w2, written \in WriteOutcomes :
       LET cached == getCachedData(store, now)
           fresh == IF cached.found THEN cached.mods
                    ELSE validateAndNormalizeData(datafile)
           cachedStore == setCachedData(cached.store, fresh, now, w1, w2)
           done == InitAfterLoad(Ctx(state, els), cachedStore, fresh, written)
       IN /\ state' = done.ctx.state
          /\ els' = done.ctx.els
          /\ store' = done.store
          /\ pc' = done.pc
          /\ trace' = [trace EXCEPT !.live = "ok", !.fresh = fresh, !.setAt = now,
                                    !.cacheReads = @ + 1,
                                    !.cacheHit = cached.found,
                                    !.wrote = IF ~w1 THEN "none"
                                              ELSE IF ~w2 THEN "payload" ELSE "both",
                                    !.before = [cache |-> store.cache, expiry |-> store.expiry]]
  /\ UNCHANGED << history, now, jsyaml, datafile, quota, timer, loads, clog, normVars, valVars, truncVars, router >>

\* res.text() resolves and jsyaml.load(text) returns a tree: the tree is
\* validated, the catalog cached and init() runs to its end.
Loaded ==
  /\ pc = "reading"
  /\ \E w1, w2, written \in WriteOutcomes :
       LET fresh == validateAndNormalizeData(datafile)
           cachedStore == setCachedData(store, fresh, now, w1, w2)
           done == InitAfterLoad(Ctx(state, els), cachedStore, fresh, written)
       IN /\ state' = done.ctx.state
          /\ els' = done.ctx.els
          /\ store' = done.store
          /\ pc' = done.pc
          /\ trace' = [trace EXCEPT !.live = "ok", !.fresh = fresh, !.setAt = now,
                                    !.wrote = IF ~w1 THEN "none"
                                              ELSE IF ~w2 THEN "payload" ELSE "both",
                                    !.before = [cache |-> store.cache, expiry |-> store.expiry]]
  /\ UNCHANGED << history, now, jsyaml, datafile, quota, timer, loads, clog, normVars, valVars, truncVars, router >>

\* The clock advances.
Tick ==
  /\ now < MaxTime
  /\ now' = now + 1
  /\ UNCHANGED << state, els, store, history, pc, jsyaml, datafile, quota, timer, loads, trace,
                  clog, normVars, valVars, truncVars, router >>

\* The page is loaded again on its current URL: a new document, the same
\* localStorage.
Reload ==
  /\ loads < MaxLoads
  /\ pc \in {"ready", "error"}
  /\ loads' = loads + 1
  /\ state' = StateObject
  /\ els' = FreshDom
  /\ history' = [entries |-> << Location >>, index |-> 1]
  /\ pc' = "boot"
  /\ jsyaml' \in BOOLEAN
  /\ datafile' \in ParsedTrees
  /\ timer' = NoTimer
  /\ trace' = FreshTrace
  /\ UNCHANGED << store, now, quota, clog, normVars, valVars, truncVars, router >>

\* The handlers' body without its writeStateToURL call.
OnControlsChanged_NoUrlWrite(e) ==
  \E written \in WriteOutcomes :
    LET st == syncStateFromControls(state, e)
        shown == updateResults(Ctx(st, e), store, written)
    IN /\ state' = shown.ctx.state
       /\ els' = shown.ctx.els
       /\ store' = shown.store
       /\ history' = history

\* The body shared by onSearchInput (after its delay), onStatusChange and
\* onSortChange: syncStateFromControls(); writeStateToURL(true);
\* updateResults().
OnControlsChanged(e) ==
  \E written \in WriteOutcomes :
    LET st == syncStateFromControls(state, e)
        shown == updateResults(Ctx(st, e), store, written)
    IN /\ state' = shown.ctx.state
       /\ els' = shown.ctx.els
       /\ store' = shown.store
       /\ history' = historyWrite(history, writeStateToURL(st, Location), TRUE)

\* An input event on the search box: the function debounce returned runs,
\* onSearchInput's body does not.
TypeSearch ==
  /\ pc # "boot"
  /\ \E text \in SearchTexts :
       /\ text # els.search
       /\ els' = [els EXCEPT !.search = text]
  /\ timer' = debounce(timer)
  /\ UNCHANGED << state, store, history, now, pc, jsyaml, datafile, quota, loads, trace,
                  clog, normVars, valVars, truncVars, router >>

\* The debounce delay elapses: onSearchInput's body runs.
DebounceFire ==
  /\ \E id \in timer.pending : timer' = [timer EXCEPT !.pending = @ \ {id}]
  /\ OnControlsChanged(els)
  /\ UNCHANGED << now, pc, jsyaml, datafile, quota, loads, trace, clog, normVars, valVars, truncVars, router >>

\* A change event on the status filter: onStatusChange.
ChangeStatus ==
  /\ pc # "boot"
  /\ \E v \in StatusOptions :
       /\ v # els.statusFilter
       /\ OnControlsChanged([els EXCEPT !.statusFilter = v])
  /\ UNCHANGED << now, pc, jsyaml, datafile, quota, timer, loads, trace, clog, normVars, valVars, truncVars, router >>

\* A change event on the sort control: onSortChange.
ChangeSort ==
  /\ pc # "boot"
  /\ \E v \in SortOptions :
       /\ v # els.sortBy
       /\ OnControlsChanged([els EXCEPT !.sortBy = v])
  /\ UNCHANGED << now, pc, jsyaml, datafile, quota, timer, loads, trace, clog, normVars, valVars, truncVars, router >>

\* The router navigates to another page (navigate of router.js): a new
\* history entry becomes current, its URL the current one with the page
\* parameter set, or removed for the default page, and without the fragment.
PushEntry ==
  /\ pc # "boot"
  /\ history.index < MaxHist
  /\ history' =
       [ entries |-> Append(SubSeq(history.entries, 1, history.index),
                            [Location EXCEPT
                               !.page = IF @ = Null THEN StrV(<<"about">>) ELSE Null,
                               !.hash = <<>>]),
         index |-> history.index + 1 ]
  /\ UNCHANGED << state, els, store, now, pc, jsyaml, datafile, quota, timer, loads, trace,
                  clog, normVars, valVars, truncVars, router >>

\* The popstate listener after the history moved to entry i:
\* readStateFromURL(); syncControlsFromState(); updateResults().
OnPopstate(i) ==
  \E written \in WriteOutcomes :
    LET st == readStateFromURL(state, history.entries[i])
        shown == updateResults(Ctx(st, syncControlsFromState(els, st)), store, written)
    IN /\ history' = [history EXCEPT !.index = i]
       /\ state' = shown.ctx.state
       /\ els' = shown.ctx.els
       /\ store' = shown.store

\* The user goes back in the session history.
Back ==
  /\ pc # "boot"
  /\ history.index > 1
  /\ OnPopstate(history.index - 1)
  /\ UNCHANGED << now, pc, jsyaml, datafile, quota, timer, loads, trace, clog, normVars, valVars, truncVars, router >>

\* The user goes forward in the session history.
Forward ==
  /\ pc # "boot"
  /\ history.index < Len(history.entries)
  /\ OnPopstate(history.index + 1)
  /\ UNCHANGED << now, pc, jsyaml, datafile, quota, timer, loads, trace, clog, normVars, valVars, truncVars, router >>

\* One page load with the user at the controls.
Next ==
  \/ InitStart
  \/ FetchFail
  \/ FetchOk
  \/ TextFail
  \/ YamlError
  \/ Loaded
  \/ TypeSearch
  \/ DebounceFire
  \/ ChangeStatus
  \/ ChangeSort

Spec == AppInit /\ [][Next]_vars

\* The visits of the history runs, as pairs of the URL and the stored
\* filters entry: every entry on the URL without a query string, and every
\* URL with no entry and with a triple an earlier visit wrote.
Visits ==
  { v \in InitialUrls \X InitialFilters :
      \/ SearchEmpty(v[1])
      \/ v[2] = Null
      \/ v[2] = JsonText(ObjOf([ query |-> StrV(<<"a">>), status |-> StrV(<<"all">>),
                                 sort |-> StrV(<<"name_asc">>) ])) }

HistInit ==
  /\ state = StateObject
  /\ els = FreshDom
  /\ \E v \in Visits :
       /\ store = [cache |-> Null, expiry |-> Null, filters |-> v[2]]
       /\ history = [entries |-> << v[1] >>, index |-> 1]
  /\ now = 0
  /\ pc = "boot"
  /\ jsyaml = TRUE
  /\ datafile = TreeOne
  /\ quota = "ok"
  /\ timer = NoTimer
  /\ loads = 1
  /\ trace = FreshTrace
  /\ clog = FreshLog
  /\ NormIdle
  /\ ValIdle
  /\ TruncIdle
  /\ RouterIdle

\* One page load with the user at the selects, navigating between the pages
\* of the site and moving in the session history.
HistNext ==
  \/ InitStart
  \/ FetchFail
  \/ FetchOk
  \/ TextFail
  \/ YamlError
  \/ Loaded
  \/ ChangeStatus
  \/ ChangeSort
  \/ PushEntry
  \/ Back
  \/ Forward

SpecHistory == HistInit /\ [][HistNext]_vars

\* Repeated page loads over the same localStorage while the clock advances:
\* the data acquisition machine and the cache.
LoadInit ==
  /\ state = StateObject
  /\ els = FreshDom
  /\ store \in { [cache |-> Null, expiry |-> Null, filters |-> f] :
                   f \in {Null, JsonText(ObjOf([ query |-> NumV(5) ]))} }
  /\ history \in { [entries |-> << u >>, index |-> 1] :
                     u \in { Url(Null, Null, Null, Null, <<>>),
                             Url(StrV(<<"B">>), Null, Null, Null, <<>>) } }
  /\ now = 0
  /\ pc = "boot"
  /\ jsyaml \in BOOLEAN
  /\ datafile \in ParsedTrees
  /\ quota = "flaky"
  /\ timer = NoTimer
  /\ loads = 1
  /\ trace = FreshTrace
  /\ clog = FreshLog
  /\ NormIdle
  /\ ValIdle
  /\ TruncIdle
  /\ RouterIdle

LoadNext ==
  \/ InitStart
  \/ FetchFail
  \/ FetchOk
  \/ TextFail
  \/ YamlError
  \/ Loaded
  \/ Tick
  \/ Reload

SpecLoad == LoadInit /\ [][LoadNext]_vars

\* A first visit on the URL without a query string, nothing stored.
EventsInit ==
  /\ state = StateObject
  /\ els = FreshDom
  /\ store = [cache |-> Null, expiry |-> Null, filters |-> Null]
  /\ history = [entries |-> << UrlOfSearch(<<>>, <<>>) >>, index |-> 1]
  /\ now = 0
  /\ pc = "boot"
  /\ jsyaml = TRUE
  /\ datafile = TreeOne
  /\ quota = "ok"
  /\ timer = NoTimer
  /\ loads = 1
  /\ trace = FreshTrace
  /\ clog = FreshLog
  /\ NormIdle
  /\ ValIdle
  /\ TruncIdle
  /\ RouterIdle

\* One page load, and a user who acts once init() has come to its end:
\* typing, the selects, navigation between the pages of the site, and moves
\* in the session history.
EventsNext ==
  \/ InitStart
  \/ FetchFail
  \/ FetchOk
  \/ YamlError
  \/ Loaded
  \/ (pc \in {"ready", "error"} /\ TypeSearch)
  \/ (pc \in {"ready", "error"} /\ DebounceFire)
  \/ (pc \in {"ready", "error"} /\ ChangeStatus)
  \/ (pc \in {"ready", "error"} /\ ChangeSort)
  \/ (pc \in {"ready", "error"} /\ PushEntry)
  \/ (pc \in {"ready", "error"} /\ Back)
  \/ (pc \in {"ready", "error"} /\ Forward)

SpecEvents == EventsInit /\ [][EventsNext]_vars

\* One page load whose promises settle: the start of init() runs, the fetch
\* resolves or rejects, and so does the reading of its body (the event loop
\* runs a continuation that is ready); the user may change the selects
\* meanwhile.
LoadingNext ==
  \/ InitStart
  \/ FetchFail
  \/ FetchOk
  \/ TextFail
  \/ YamlError
  \/ Loaded
  \/ ChangeStatus
  \/ ChangeSort

SpecLoading ==
  /\ LoadInit
  /\ [][LoadingNext]_vars
  /\ WF_vars(InitStart)
  /\ WF_vars(FetchFail \/ FetchOk)
  /\ WF_vars(TextFail \/ YamlError \/ Loaded)

\* ==================== CACHE RUNS ====================

\* The catalogs handed to setCachedData.
Catalogs == { validateAndNormalizeData(t) : t \in WellFormedTrees }

\* The localStorage is empty, its setItem may throw, and no page is loaded.
CacheInit ==
  /\ state = StateObject
  /\ els = FreshDom
  /\ store = [cache |-> Null, expiry |-> Null, filters |-> Null]
  /\ history = [entries |-> << Url(Null, Null, Null, Null, <<>>) >>, index |-> 1]
  /\ now = 0
  /\ pc = "boot"
  /\ jsyaml = TRUE
  /\ datafile = Null
  /\ quota = "flaky"
  /\ timer = NoTimer
  /\ loads = 1
  /\ trace = FreshTrace
  /\ clog = FreshLog
  /\ NormIdle
  /\ ValIdle
  /\ TruncIdle
  /\ RouterIdle

\* One call setCachedData(data) at the current time.
CacheSet ==
  /\ \E data \in Catalogs : \E w1, w2 \in WriteOutcomes :
       /\ store' = setCachedData(store, data, now, w1, w2)
       /\ clog' = [clog EXCEPT
                     !.op = "set",
                     !.lastSet = IF ~w1 THEN @
                                 ELSE [how |-> IF w2 THEN "both" ELSE "payload",
                                       data |-> data, at |-> now],
                     !.evicted = IF w1 THEN FALSE ELSE @]
  /\ UNCHANGED << state, els, history, now, pc, jsyaml, datafile, quota, timer, loads, trace,
                  normVars, valVars, truncVars, router >>

\* One call getCachedData() at the current time.
CacheGet ==
  /\ LET r == getCachedData(store, now)
     IN /\ store' = r.store
        /\ clog' = [clog EXCEPT
                      !.op = "get", !.found = r.found, !.got = r.mods, !.at = now,
                      !.before = [cache |-> store.cache, expiry |-> store.expiry],
                      !.evicted = @ \/ (r.store # store)]
  /\ UNCHANGED << state, els, history, now, pc, jsyaml, datafile, quota, timer, loads, trace,
                  normVars, valVars, truncVars, router >>

CacheNext ==
  \/ CacheSet
  \/ CacheGet
  \/ Tick

SpecCache == CacheInit /\ [][CacheNext]_vars

\* ==================== URL RUNS ====================

\* The strings the fields of a QueryState hold in the URL runs: empty, the
\* defaults, padded text, and the characters with a meaning in a query
\* string.
QueryTexts == { <<>>, <<"a">>, <<" ", "B", " ">>, <<"&", "=">>, <<"+", "%", "#", "?">> }
StatusTexts == { <<>>, <<"all">>, STATUS_COMPLETED, <<"a", "&", "q", "=", "b">> }
SortTexts == { <<>>, <<"date_desc">>, <<"name_asc">>, <<"bogus">> }

\* A QueryState is held and a URL is current; nothing was written or read.
UrlInit ==
  /\ \E q \in QueryTexts, st \in StatusTexts, so \in SortTexts :
       state = [StateObject EXCEPT !.query = StrV(q), !.status = StrV(st), !.sort = StrV(so)]
  /\ els = FreshDom
  /\ store = [cache |-> Null, expiry |-> Null, filters |-> Null]
  /\ history \in { [entries |-> << u >>, index |-> 1] : u \in InitialUrls }
  /\ now = 0
  /\ pc = "held"
  /\ jsyaml = TRUE
  /\ datafile = Null
  /\ quota = "ok"
  /\ timer = NoTimer
  /\ loads = 1
  /\ trace = FreshTrace
  /\ clog = FreshLog
  /\ NormIdle
  /\ ValIdle
  /\ TruncIdle
  /\ RouterIdle

\* One call writeStateToURL(true).
UrlWrite ==
  /\ pc = "held"
  /\ pc' = "written"
  /\ history' = [history EXCEPT !.entries[history.index] = writeStateToURL(state, Location)]
  /\ UNCHANGED << state, els, store, now, jsyaml, datafile, quota, timer, loads, trace,
                  clog, normVars, valVars, truncVars, router >>

\* One call readStateFromURL().
UrlRead ==
  /\ pc \in {"held", "written"}
  /\ pc' = "read"
  /\ state' = readStateFromURL(state, Location)
  /\ UNCHANGED << els, store, history, now, jsyaml, datafile, quota, timer, loads, trace,
                  clog, normVars, valVars, truncVars, router >>

UrlNext ==
  \/ UrlWrite
  \/ UrlRead

SpecUrl == UrlInit /\ [][UrlNext]_vars

\* ==================== VIEW RUNS ====================

\* The records of the View runs: two with the same date, one of them with
\* the completed status in other letter case, a later one, and two whose
\* release_date is no date.
ViewPool ==
  { Mod(<<"a">>, <<"B", "a">>, STATUS_COMPLETED, <<"1">>),
    Mod(<<"b">>, <<"a">>, <<"z", "a">>, <<"1">>),
    Mod(<<"c">>, <<"b">>, <<"V">>, <<"2">>),
    Mod(<<"d">>, <<"A">>, STATUS_COMPLETED, <<"a", "b">>),
    Mod(<<"e">>, <<"Z">>, <<"V">>, <<"x">>) }

RECURSIVE ViewLists(_)
\* The sequences of at most k different records of ViewPool.
ViewLists(k) ==
  IF k = 0 THEN {<<>>}
  ELSE LET shorter == ViewLists(k - 1)
           Fresh(l) == { x \in ViewPool : \A i \in 1..Len(l) : l[i] # x }
       IN shorter \cup UNION { { Append(l, x) : x \in Fresh(l) } :
                                l \in {m \in shorter : Len(m) = k - 1} }

\* The QueryStates of the View runs; the sort keys are the four of the
\* sorters object, a name it does not have, and names it inherits.
ViewQueries == { <<>>, <<"b">> }
ViewStatuses == { <<"all">>, STATUS_COMPLETED, <<"z", "a">> }
ViewSorts == SorterKeys \cup { <<"bogus">>, <<"constructor">>, ProtoKey }

\* A loaded page: the catalog is in state.mods and a QueryState is set.
ViewInit ==
  /\ \E l \in ViewLists(MaxList), q \in ViewQueries, st \in ViewStatuses, k \in ViewSorts :
       state = [ StateObject EXCEPT !.mods = validateAndNormalizeData(ArrV(l)),
                                    !.stats = calculateStats(validateAndNormalizeData(ArrV(l))),
                                    !.query = StrV(q), !.status = StrV(st), !.sort = StrV(k) ]
  /\ els = FreshDom
  /\ store = [cache |-> Null, expiry |-> Null, filters |-> Null]
  /\ history = [entries |-> << Url(Null, Null, Null, Null, <<>>) >>, index |-> 1]
  /\ now = 0
  /\ pc = "view"
  /\ jsyaml = TRUE
  /\ datafile = Null
  /\ quota = "ok"
  /\ timer = NoTimer
  /\ loads = 1
  /\ trace = FreshTrace
  /\ clog = FreshLog
  /\ NormIdle
  /\ ValIdle
  /\ TruncIdle
  /\ RouterIdle

\* One call updateResults(): the view is computed and rendered, or the
\* call throws.
ViewRender ==
  /\ pc = "view"
  /\ LET shown == updateResults(Ctx(state, els), store, TRUE)
     IN /\ state' = shown.ctx.state
        /\ els' = shown.ctx.els
        /\ store' = shown.store
        /\ pc' = IF shown.threw THEN "threw" ELSE "shown"
  /\ UNCHANGED << history, now, jsyaml, datafile, quota, timer, loads, trace, clog,
                  normVars, valVars, truncVars, router >>

ViewNext == ViewRender

SpecView == ViewInit /\ [][ViewNext]_vars

\* ==================== NORMALIZER RUNS ====================

\* Values tried for a mandatory field: a padded string, a whitespace-only
\* string, the empty string, and values that are not strings.
Padded == StrV(<<" ", "a", " ">>)
BlankValues == {StrV(<<" ">>), StrV(<<>>), Undefined, NumV(7)}
IdValues == {Padded, StrV(<<"b">>)} \cup BlankValues
NameValues == {Padded, StrV(<<"B", " ", "a">>)} \cup BlankValues
TextValues == {Padded} \cup BlankValues
DateValues == {StrV(<<"1", "2">>), StrV(<<"a", "b">>), StrV(<<" ">>), Undefined}

\* Values tried for the optional fields.
UrlValues == {Undefined, StrV(<<" ">>), StrV(<<"u">>), StrV(<<"x", " ", "y">>), NumV(3)}
ListValues ==
  { Undefined, Null, StrV(<<"t">>), StrV(<<>>), NumV(0), ObjV,
    ArrV(<<>>), ArrV(<< StrV(<<"T">>), NumV(1), StrV(<<" ">>), StrV(<<" ", "u">>) >>) }
SizeValues ==
  { Undefined, Null, NumV(5), NumV(0), NaN, Infinity, BoolV(TRUE), ObjV,
    StrV(<<"4", "2">>), StrV(<<" ", "7", " ">>), StrV(<<>>), StrV(<<" ">>),
    StrV(<<"a">>) }

ValidRecord ==
  RawRecord(StrV(<<"a">>), StrV(<<"A", "b">>), StrV(<<"d">>), StrV(<<"Z">>),
            StrV(<<"1", "2">>), StrV(<<"x">>))

\* The raw records of the Normalizer runs: every combination of mandatory
\* fields over records without optional fields, and every optional profile
\* over a record whose mandatory fields are all present.
MandatoryVariants ==
  { RawRecord(i, n, d, s, r, o) :
      i \in IdValues, n \in NameValues, d \in TextValues, s \in TextValues,
      r \in DateValues, o \in TextValues }
OptionalVariants ==
  { [ValidRecord EXCEPT !.p["image"] = u, !.p["image_id"] = v] : u \in UrlValues, v \in UrlValues }
  \cup { [ValidRecord EXCEPT !.p["drive_url"] = u, !.p["file_id"] = v] : u \in UrlValues, v \in UrlValues }
  \cup { [ValidRecord EXCEPT !.p["source_url"] = u] : u \in UrlValues }
  \cup { [ValidRecord EXCEPT !.p["tags"] = l, !.p["mirrors"] = m] : l \in ListValues, m \in ListValues }
  \cup { [ValidRecord EXCEPT !.p["warnings"] = l] : l \in ListValues }
  \cup { [ValidRecord EXCEPT !.p["size_mb"] = z] : z \in SizeValues }
RawRecords == MandatoryVariants \cup OptionalVariants

NormInit ==
  /\ raw \in RawRecords
  /\ norm = Rejected
  /\ normDone = FALSE
  /\ ValIdle
  /\ TruncIdle
  /\ RouterIdle
  /\ AppIdle

\* One call normalizeMod(raw).
Normalize ==
  /\ ~normDone
  /\ norm' = normalizeMod(raw)
  /\ normDone' = TRUE
  /\ UNCHANGED << raw, valVars, appVars, truncVars, router >>

NormNext == Normalize

SpecNormalize == NormInit /\ [][NormNext]_vars

\* ==================== VALIDATOR RUNS ====================

\* A raw item with the six mandatory fields and tags.
Item(id, name, tags) ==
  [ RawRecord(id, name, StrV(<<"d">>), StrV(<<"Z">>), StrV(<<"1", "2">>), StrV(<<"x">>))
      EXCEPT !.p["tags"] = tags ]

\* The items of the Validator runs: two ids, a second and a third record
\* carrying the first id (one of them padded), a record that carries the
\* first id and fails normalization, and entries that are not objects.
ItemPool ==
  { Item(StrV(<<"a">>), StrV(<<"A", "b">>), Undefined),
    Item(StrV(<<" ", "a">>), StrV(<<"B", " ", "a">>), ArrV(<< StrV(<<"t">>) >>)),
    Item(StrV(<<"b">>), StrV(<<"A", "b">>), Undefined),
    Item(StrV(<<"a">>), Undefined, ArrV(<< StrV(<<"u">>) >>)),
    Null,
    StrV(<<"a">>),
    ArrV(<<>>) }

RECURSIVE ListsUpTo(_)
\* The sequences over ItemPool of length at most k.
ListsUpTo(k) ==
  IF k = 0 THEN {<<>>}
  ELSE LET shorter == ListsUpTo(k - 1)
       IN shorter \cup { Append(l, x) : l \in {m \in shorter : Len(m) = k - 1}, x \in ItemPool }

\* The parsed trees of the Validator runs: bare sequences, objects with a
\* mods sequence, and the shapes that are neither.
ValidateInputs ==
  { ArrV(l) : l \in ListsUpTo(MaxList) }
  \cup { ObjOf([mods |-> ArrV(l)]) : l \in ListsUpTo(1) }
  \cup { Null, Undefined, StrV(<<"a">>), NumV(1), ObjV,
         ObjOf([mods |-> StrV(<<"a">>)]), ObjOf([mods |-> Null]) }

ValInit ==
  /\ vdata \in ValidateInputs
  /\ vout = <<>>
  /\ vDone = FALSE
  /\ NormIdle
  /\ TruncIdle
  /\ RouterIdle
  /\ AppIdle

\* One call validateAndNormalizeData(vdata).
Validate ==
  /\ ~vDone
  /\ vout' = validateAndNormalizeData(vdata)
  /\ vDone' = TRUE
  /\ UNCHANGED << vdata, normVars, appVars, truncVars, router >>

ValNext == Validate

SpecValidate == ValInit /\ [][ValNext]_vars

\* ==================== TRUNCATION RUNS ====================

\* The characters of the Truncation runs: a letter, the space, and one
\* character outside the Basic Multilingual Plane.
TextChars == { <<"a">>, <<" ">>, <<"hi", "lo">> }

RECURSIVE TextsUpTo(_)
\* The strings of at most k characters of TextChars.
TextsUpTo(k) ==
  IF k = 0 THEN {<<>>}
  ELSE LET shorter == TextsUpTo(k - 1)
       IN shorter \cup { s \o c : s \in shorter, c \in TextChars }

\* Strings with a surrogate that has no partner.
LoneSurrogateTexts ==
  { <<"a", "hi", "a", " ", "a">>, <<"lo", " ", "hi", "a">>, <<"hi", "hi", "lo", "a">> }

\* The limits of the Truncation runs; maxChars * 0.6 is whole for the second.
TruncLimits == {2, 5}

TruncInit ==
  /\ tin \in [ str : { StrV(s) : s \in TextsUpTo(MaxText) \cup LoneSurrogateTexts },
                maxChars : TruncLimits,
                preserveWords : BOOLEAN ]
  /\ tout = [text |-> <<>>, truncated |-> FALSE]
  /\ tDone = FALSE
  /\ NormIdle
  /\ ValIdle
  /\ AppIdle
  /\ RouterIdle

\* One call truncateUnicode(tin.str, tin.maxChars, tin.preserveWords).
Truncate ==
  /\ ~tDone
  /\ tout' = truncateUnicode(tin.str, tin.maxChars, tin.preserveWords, Ellipsis)
  /\ tDone' = TRUE
  /\ UNCHANGED << tin, normVars, valVars, appVars, router >>

TruncNext == Truncate

SpecTruncate == TruncInit /\ [][TruncNext]_vars

\* ==================== ROUTER RUNS ====================

\* The sections _discoverPages finds, and those with a data-source attribute.
RouterPages == { << "mods" >>, << "about" >> }
PagesWithSource == { << "about" >> }

\* _getRequestedPage(): the page parameter when it is not empty, else the
\* fragment in the form #/page or #page=..., else the default page.
getRequestedPage(url) ==
  IF url.page # Null /\ url.page.s # <<>> THEN url.page.s
  ELSE IF Len(url.hash) >= 2 /\ url.hash[1] = "#" /\ url.hash[2] = "/"
       THEN SubSeq(url.hash, 3, Len(url.hash))
  ELSE IF url.hash # <<>> /\ url.hash[1] = "#"
          /\ Truthy(ParamGet(ParseSearch(Tail(url.hash)), "page"))
       THEN ParamGet(ParseSearch(Tail(url.hash)), "page").s
  ELSE DefaultPage

\* The URL navigate builds: the current parameters with the page parameter
\* set, or deleted for the default page, behind the path; buildUrlWithParams
\* appends no fragment.
RouterUrl(url, toPage) ==
  [url EXCEPT !.page = IF toPage = DefaultPage THEN Null ELSE StrV(toPage),
              !.hash = <<>>]

\* navigate(pageId, { replace }) up to its first suspension, on the router
\* r and the session history h.  An unknown page is the default page; a call
\* while a navigation is in flight, or for the current page, changes
\* nothing.  Otherwise the URL is written and the sections are toggled;
\* _loadContentFor then awaits a fetch when the page has a source that is
\* not loaded yet, and the rest of navigate runs when the fetch has
\* settled.  Without a fetch the rest runs before any other event.
navigate(r, h, pageId, replace) ==
  LET toPage == IF pageId = NoPage \/ pageId \notin RouterPages THEN DefaultPage ELSE pageId
      written == historyWrite(h, RouterUrl(h.entries[h.index], toPage), replace)
  IN IF r.isNavigating \/ r.currentPage = toPage
     THEN [router |-> r, history |-> h]
     ELSE IF toPage \in PagesWithSource /\ toPage \notin r.loaded
     THEN [ router |-> [r EXCEPT !.isNavigating = TRUE, !.toPage = toPage, !.shown = {toPage}],
            history |-> written ]
     ELSE [ router |-> [r EXCEPT !.currentPage = toPage, !.shown = {toPage}],
            history |-> written ]

\* new SPAQueryRouter(): the constructor navigates to the requested page.
RouterConstruct ==
  /\ ~router.started
  /\ LET nav == navigate([router EXCEPT !.started = TRUE], history,
                         getRequestedPage(Location), TRUE)
     IN router' = nav.router /\ history' = nav.history
  /\ UNCHANGED << state, els, store, now, pc, jsyaml, datafile, quota, timer, loads, trace,
                  clog, normVars, valVars, truncVars >>

\* onClick on a link with data-page: navigate(dp).
RouterClick ==
  /\ router.started
  /\ \E dp \in RouterPages :
       LET nav == navigate(router, history, dp, FALSE)
       IN /\ nav.history.index <= MaxHist
          /\ router' = nav.router
          /\ history' = nav.history
  /\ UNCHANGED << state, els, store, now, pc, jsyaml, datafile, quota, timer, loads, trace,
                  clog, normVars, valVars, truncVars >>

\* The fetch of _loadContentFor settles, with the content or with a failure
\* (caught, a fallback text is shown), and navigate runs to its end.
RouterSettle ==
  /\ router.isNavigating
  /\ \E ok \in BOOLEAN :
       router' = [router EXCEPT !.currentPage = router.toPage,
                                !.isNavigating = FALSE,
                                !.toPage = NoPage,
                                !.loaded = IF ok THEN @ \cup {router.toPage} ELSE @]
  /\ UNCHANGED << state, els, store, history, now, pc, jsyaml, datafile, quota, timer, loads,
                  trace, clog, normVars, valVars, truncVars >>

\* The user moves in the session history to entry i and popstate is
\* dispatched: onPop of the router navigates to the requested page with
\* replace, and the listener of script.js, once bound, reads the state from
\* the URL and renders.
RouterPop(i) ==
  LET moved == [history EXCEPT !.index = i]
      nav == navigate(router, moved, getRequestedPage(moved.entries[i]), TRUE)
  IN /\ router.started
     /\ router' = nav.router
     /\ history' = nav.history
     /\ IF pc = "boot" THEN UNCHANGED << state, els, store >>
        ELSE \E written \in WriteOutcomes :
               LET st == readStateFromURL(state, moved.entries[i])
                   shown == updateResults(Ctx(st, syncControlsFromState(els, st)), store, written)
               IN /\ state' = shown.ctx.state
                  /\ els' = shown.ctx.els
                  /\ store' = shown.store
     /\ UNCHANGED << now, pc, jsyaml, datafile, quota, timer, loads, trace, clog,
                     normVars, valVars, truncVars >>

RouterBack == history.index > 1 /\ RouterPop(history.index - 1)
RouterForward == history.index < Len(history.entries) /\ RouterPop(history.index + 1)

\* The URLs a visit of the site starts on.
RouterVisits ==
  { UrlOfSearch(<<>>, <<>>),
    UrlOfSearch(<<"?", "page", "=", "about">>, <<>>),
    UrlOfSearch(<<"?", "page", "=", "bogus", "&", "status", "=", "completed">>, <<>>),
    UrlOfSearch(<<>>, <<"#", "/", "about">>) }

\* A first visit with nothing stored; the page holds the catalog and a router.
RouterInit ==
  /\ state = StateObject
  /\ els = FreshDom
  /\ store = [cache |-> Null, expiry |-> Null, filters |-> Null]
  /\ history \in { [entries |-> << u >>, index |-> 1] : u \in RouterVisits }
  /\ now = 0
  /\ pc = "boot"
  /\ jsyaml = TRUE
  /\ datafile = TreeOne
  /\ quota = "ok"
  /\ timer = NoTimer
  /\ loads = 1
  /\ trace = FreshTrace
  /\ clog = FreshLog
  /\ NormIdle
  /\ ValIdle
  /\ TruncIdle
  /\ RouterIdle

\* One page load with the catalog and the router on the page: the user
\* follows links, moves in the session history, types in the search box and
\* changes the status filter.
RouterNext ==
  \/ InitStart
  \/ FetchOk
  \/ Loaded
  \/ TypeSearch
  \/ DebounceFire
  \/ ChangeStatus
  \/ RouterConstruct
  \/ RouterClick
  \/ RouterSettle
  \/ RouterBack
  \/ RouterForward

SpecRouter == RouterInit /\ [][RouterNext]_vars

\* ==================== CLAIMS ====================

\* A value that is the empty string after coercion and trimming, stated on
\* the raw value: not a string at all, or a string of whitespace only.
IsBlankValue(v) == v.t # "string" \/ \A i \in 1..Len(v.s) : v.s[i] = " "

InputItems == IF CandidateList(vdata) = Undefined THEN <<>> ELSE CandidateList(vdata).a

\* Item i of the input is an object carrying the id (compared after coercion
\* and trimming).
CarriesId(i, id) ==
  /\ InputItems[i].t = "object"
  /\ safeToString(Get(InputItems[i], "id")) = id

\* Item i of the input is an object that passes normalization.
Accepted(i) ==
  /\ InputItems[i].t = "object"
  /\ normalizeMod(InputItems[i]) # Rejected

\* No two items of the returned catalog have the same id.
UniqueIds ==
  \A j, k \in 1..Len(vout) : vout[j].id = vout[k].id => j = k

\* C2 (as stated): for each id of the catalog the kept item is the first
\* record in input order carrying that id.
C2_KeepsFirstCarrying ==
  vDone =>
    /\ UniqueIds
    /\ \A j \in 1..Len(vout) :
         \E i \in 1..Len(InputItems) :
           /\ CarriesId(i, vout[j].id)
           /\ \A k \in 1..(i - 1) : ~CarriesId(k, vout[j].id)
           /\ normalizeMod(InputItems[i]) = vout[j]

\* C2 (amended): the catalog never holds two items with the same id; for
\* each id the kept item is the normalization of the first record in input
\* order that passes normalization and carries that id, every accepted id
\* is kept once, and no field of a later record reaches the kept item.
C2_KeepsFirstAccepted ==
  vDone =>
    /\ UniqueIds
    /\ \A j \in 1..Len(vout) :
         \E i \in 1..Len(InputItems) :
           /\ Accepted(i) /\ CarriesId(i, vout[j].id)
           /\ \A k \in 1..(i - 1) : ~(Accepted(k) /\ CarriesId(k, vout[j].id))
           /\ normalizeMod(InputItems[i]) = vout[j]
    /\ \A i \in 1..Len(InputItems) :
         Accepted(i) => \E j \in 1..Len(vout) : CarriesId(i, vout[j].id)

\* C2 witness: two accepted records carrying the same id, with different
\* names, were validated and one item was kept.
C2_Witness ==
  /\ vDone
  /\ Len(vout) = 1
  /\ \E i, k \in 1..Len(InputItems) :
       /\ i < k /\ Accepted(i) /\ Accepted(k)
       /\ CarriesId(i, vout[1].id) /\ CarriesId(k, vout[1].id)
       /\ normalizeMod(InputItems[i]).name # normalizeMod(InputItems[k]).name

\* init() has come to rest: the catalog or the error state is shown.
Settled == pc \in {"ready", "error"}

\* The QueryState of a state object.
QueryTriple(st) == << st.query, st.status, st.sort >>

\* C3 (as stated): whenever the live load has failed while an unexpired
\* cache entry was stored, the cached catalog substitutes: the page is
\* Ready, the error state is not shown, and the catalog is the cached one.
C3_FallbackWheneverCached ==
  (Settled /\ trace.live = "failed" /\ trace.entryAtFailure) =>
    /\ pc = "ready"
    /\ els.errorHidden
    /\ state.mods = JsonParse(trace.before.cache)

\* C4 (as stated): a data file that parses to a tree that is neither a
\* sequence nor an object with a mods sequence is handled as a failed fetch:
\* the cache is read, the stored payload is not overwritten, and Ready is
\* reached only with the cached catalog.
C4_MalformedTakesFallback ==
  (Settled /\ trace.live = "ok" /\ CandidateList(datafile) = Undefined) =>
    /\ trace.cacheReads = 1
    /\ store.cache \in {trace.before.cache, Null}
    /\ (pc = "ready" => trace.cacheHit)

\* C5: a getCachedData() that follows a setCachedData(catalog) whose two
\* writes succeeded, at a time not later than the stored expiry, returns a
\* catalog equal to the one stored.
C5_RoundTrip ==
  ( /\ clog.op = "get"
    /\ clog.lastSet.how = "both"
    /\ clog.at <= clog.lastSet.at + CACHE_DURATION )
  => (clog.found /\ clog.got = clog.lastSet.data)

\* C5 witness: a catalog with a null timestamp and a haystack was stored and
\* read back at the very time of its expiry.
C5_Witness ==
  /\ clog.op = "get"
  /\ clog.lastSet.how = "both"
  /\ clog.at = clog.lastSet.at + CACHE_DURATION
  /\ clog.found
  /\ \E i \in 1..Len(clog.got) :
       /\ clog.got[i].releaseDateMs = Null
       /\ clog.got[i]._haystack # <<>>
  /\ \E i \in 1..Len(clog.got) : clog.got[i].releaseDateMs # Null

\* The entry (payload and expiry) is complete and its expiry lies before t.
EntryExpired(entry, t) ==
  /\ entry.cache # Null
  /\ entry.expiry # Null
  /\ t > DecimalValue(entry.expiry.s)

\* C6: getCachedData returns nothing when an entry is missing or the time is
\* past the expiry; reading an expired entry removes the payload and the
\* expiry, nothing of the cache remains stored afterwards, and every read
\* is empty until setCachedData writes again.
C6_ExpiredReadEvicts ==
  /\ (clog.op = "get" /\ (clog.before.cache = Null \/ clog.before.expiry = Null))
       => ~clog.found
  /\ (clog.op = "get" /\ EntryExpired(clog.before, clog.at))
       => (~clog.found /\ store.cache = Null /\ store.expiry = Null)
  /\ clog.evicted => (store.cache = Null /\ store.expiry = Null)
  /\ (clog.op = "get" /\ clog.evicted) => ~clog.found

\* C6 witness: after an expired entry was removed, a later read found the
\* storage empty and returned nothing.
C6_Witness ==
  /\ clog.op = "get"
  /\ clog.evicted
  /\ clog.before.cache = Null
  /\ clog.lastSet.how = "both"
  /\ ~clog.found

C8_PayloadAndExpiryOfSameFetch ==
  (Settled /\ trace.live = "ok" /\ store.cache # trace.before.cache) =>
    /\ store.cache = CatalogText(validateAndNormalizeData(datafile))
    /\ store.expiry = StrV(Numeral(trace.setAt + CACHE_DURATION))

\* The value a field takes from a URL parameter: the parameter when present,
\* the default otherwise.
FromUrl(param, default) == IF param # Null THEN param ELSE default

\* C9: the step that starts the page sets the QueryState from the URL alone
\* when the URL carries a query string (absent fields take the defaults,
\* the stored filters are ignored); only on a URL without a query string is
\* the stored triple applied, and the defaults when nothing usable is
\* stored.
C9_UrlTakesPrecedence ==
  [][ (pc = "boot" /\ pc' # "boot") =>
        IF ~SearchEmpty(Location)
        THEN QueryTriple(state') = << FromUrl(Location.q, DEFAULTS.query),
                                      FromUrl(Location.status, DEFAULTS.status),
                                      FromUrl(Location.sort, DEFAULTS.sort) >>
        ELSE IF loadFiltersFromStorage(store) = Null
        THEN QueryTriple(state') = << DEFAULTS.query, DEFAULTS.status, DEFAULTS.sort >>
        ELSE QueryTriple(state') = QueryTriple(loadFiltersFromStorage(store)) ]_vars

\* C9 witness: the page started on a URL with a query string while a triple
\* was stored, and its QueryState holds the URL's query, not the stored one.
C9_Witness ==
  /\ pc = "fetching"
  /\ ~SearchEmpty(Location)
  /\ Location.q # Null
  /\ loadFiltersFromStorage(store) # Null
  /\ state.query = Location.q
  /\ state.query # loadFiltersFromStorage(store).query
  /\ state.sort = DEFAULTS.sort
  /\ state.sort # loadFiltersFromStorage(store).sort

\* C10 (as stated): a move in the session history leaves the QueryState the
\* initial load would establish on the URL landed on, with the storage as
\* it is at that moment.
C10_PopstateReadsAsInit ==
  [][ (history'.entries = history.entries /\ history'.index # history.index) =>
        QueryTriple(state') =
          QueryTriple(InitialQueryState(state, history'.entries[history'.index], store))
    ]_vars

\* A user-interaction handler runs: the debounced onSearchInput,
\* onStatusChange or onSortChange.
HandlerStep == DebounceFire \/ ChangeStatus \/ ChangeSort

\* The three fields stored under the filters key, each Undefined when the
\* entry holds no object.
StoredTriple(sto) ==
  IF sto.filters # Null /\ IsJson(sto.filters) /\ JsonParse(sto.filters).t = "object"
  THEN << Get(JsonParse(sto.filters), "query"), Get(JsonParse(sto.filters), "status"),
          Get(JsonParse(sto.filters), "sort") >>
  ELSE << Undefined, Undefined, Undefined >>

\* C11: when a user-interaction handler has run, the q, status and sort
\* parameters of the URL equal the QueryState in memory, and so does the
\* stored triple when the storage accepts writes, whether the data is still
\* being fetched, was loaded, or failed to load.
C11_HandlersSyncUrlAndStorage ==
  [][ HandlerStep =>
        /\ << Location'.q, Location'.status, Location'.sort >> = QueryTriple(state')
        /\ (quota = "ok" => StoredTriple(store') = QueryTriple(state')) ]_vars

\* C11 witness: after the load failed, handlers have set a query and a sort
\* key, and the URL and the stored entry both hold the QueryState in memory.
C11_Witness ==
  /\ pc = "error"
  /\ state.query = StrV(<<"B">>)
  /\ state.sort = StrV(<<"name_asc">>)
  /\ << Location.q, Location.status, Location.sort >> = QueryTriple(state)
  /\ StoredTriple(store) = QueryTriple(state)

\* C14 (as stated): whatever the stored filters entry holds, once the data
\* file was fetched and parsed the page is Ready and no error state is
\* shown.
C14_StoredEntryNeverBreaksStartup ==
  (Settled /\ trace.live = "ok") =>
    /\ pc = "ready"
    /\ els.errorHidden

\* The catalog item m is one of the cards shown.
Shown(m) == \E j \in 1..Len(els.cards) : els.cards[j] = m

\* C15 (as stated, with the status filter at "all"): in the Ready page the
\* cards are exactly the catalog items whose haystack contains the
\* lower-cased, trimmed query, and every item when that text is empty.
C15_TextFilterLowercasedTrimmed ==
  (pc = "ready" /\ state.query.t = "string" /\ state.status = StrV(<<"all">>)) =>
    LET q == Trim(ToLowerCase(state.query.s)) IN
    \A i \in 1..Len(state.mods) :
      Shown(state.mods[i]) <=> (q = <<>> \/ Includes(state.mods[i]._haystack, q))

C13_ReadPerField ==
  [][ (pc = "held" /\ pc' = "read") =>
        /\ state'.query = (IF Location.q = Null THEN StrV(<<>>) ELSE Location.q)
        /\ state'.status = (IF Location.status = Null THEN StrV(<<"all">>)
                             ELSE Location.status)
        /\ state'.sort = (IF Location.sort = Null THEN StrV(<<"date_desc">>)
                           ELSE Location.sort) ]_vars

\* C13 witness: a URL whose three parameters are present and empty was
\* read, and the three fields are empty strings.
C13_Witness ==
  /\ pc = "read"
  /\ Location.q = StrV(<<>>)
  /\ Location.status = StrV(<<>>)
  /\ state.status = StrV(<<>>)
  /\ state.sort = StrV(<<>>)
  /\ state.query = StrV(<<>>)

\* A view was computed and rendered.
ViewShown == pc = "shown"

\* C16: with a status other than "all" every card's status is that very
\* string, so an item whose status differs from it in letter case only is
\* left out although calculateStats counts it as completed; with the status
\* "all" and no query every catalog item is shown.
C16_StatusFilterExact ==
  ViewShown =>
    /\ state.status # StrV(<<"all">>) =>
         \A j \in 1..Len(els.cards) : StrV(els.cards[j].status) = state.status
    /\ state.status # StrV(<<"all">>) =>
         \A i \in 1..Len(state.mods) :
           (StrV(state.mods[i].status) # state.status) => ~Shown(state.mods[i])
    /\ (state.status = StrV(<<"all">>) /\ state.query = StrV(<<>>)) =>
         \A i \in 1..Len(state.mods) : Shown(state.mods[i])

\* C16 witness: the completed status is selected, the catalog holds an item
\* with that status and one with the same status in other letter case; the
\* first is shown, the second is not, and both count as completed.
C16_Witness ==
  /\ ViewShown
  /\ state.status = StrV(STATUS_COMPLETED)
  /\ state.query = StrV(<<>>)
  /\ Len(els.cards) = 1
  /\ state.stats.completed = 2
  /\ \E i \in 1..Len(state.mods) :
       /\ state.mods[i].status # STATUS_COMPLETED
       /\ isCompletedStatus(state.mods[i].status)
       /\ ~Shown(state.mods[i])

\* The position in the catalog of the card at position j of the view.
CatalogIndex(j) == CHOOSE i \in 1..Len(state.mods) : state.mods[i] = els.cards[j]

\* The cards have a timestamp before they have none: once a card without a
\* timestamp is listed, no card with one follows.
NullsLast ==
  \A i, j \in 1..Len(els.cards) :
    (i < j /\ els.cards[i].releaseDateMs = Null) => els.cards[j].releaseDateMs = Null

\* C17: under date_desc the timestamps of the cards never increase down the
\* view, under date_asc they never decrease, and in both orders the cards
\* without a timestamp come after all the cards with one.
C17_DateOrderNullsLast ==
  /\ (ViewShown /\ state.sort = StrV(<<"date_desc">>)) =>
       /\ NullsLast
       /\ \A i, j \in 1..Len(els.cards) :
            (i < j /\ els.cards[i].releaseDateMs # Null /\ els.cards[j].releaseDateMs # Null)
              => els.cards[i].releaseDateMs.n >= els.cards[j].releaseDateMs.n
  /\ (ViewShown /\ state.sort = StrV(<<"date_asc">>)) =>
       /\ NullsLast
       /\ \A i, j \in 1..Len(els.cards) :
            (i < j /\ els.cards[i].releaseDateMs # Null /\ els.cards[j].releaseDateMs # Null)
              => els.cards[i].releaseDateMs.n <= els.cards[j].releaseDateMs.n

\* C17 witness: under date_asc a catalog that starts with an item without a
\* timestamp and lists the later date before the earlier one is shown with
\* the earlier date first and the item without a timestamp last.
C17_Witness ==
  /\ ViewShown
  /\ state.sort = StrV(<<"date_asc">>)
  /\ Len(state.mods) = 3
  /\ state.mods[1].releaseDateMs = Null
  /\ state.mods[2].releaseDateMs = NumV(2)
  /\ state.mods[3].releaseDateMs = NumV(1)
  /\ els.cards = << state.mods[3], state.mods[2], state.mods[1] >>

\* C18: under date_desc and date_asc two cards with the same timestamp, or
\* both without one, stand in the order they have in the catalog.
C18_SortStable ==
  (ViewShown /\ state.sort \in {StrV(<<"date_desc">>), StrV(<<"date_asc">>)}) =>
    \A i, j \in 1..Len(els.cards) :
      (i < j /\ els.cards[i].releaseDateMs = els.cards[j].releaseDateMs)
        => CatalogIndex(i) < CatalogIndex(j)

\* C18 witness: under date_desc a later item between two items of the same
\* date is shown first, and the two keep their catalog order although their
\* names are in the opposite order.
C18_Witness ==
  /\ ViewShown
  /\ state.sort = StrV(<<"date_desc">>)
  /\ Len(state.mods) = 3
  /\ state.mods[1].releaseDateMs = NumV(1)
  /\ state.mods[3].releaseDateMs = NumV(1)
  /\ state.mods[2].releaseDateMs = NumV(2)
  /\ localeCompare(state.mods[1].name, state.mods[3].name) > 0
  /\ els.cards = << state.mods[2], state.mods[1], state.mods[3] >>

\* The catalog item m passes the query and the status predicates of the
\* QueryState in memory.
Selected(m) ==
  /\ (ToLowerCase(state.query.s) = <<>> \/ Includes(m._haystack, ToLowerCase(state.query.s)))
  /\ (state.status = StrV(<<"all">>) \/ StrV(m.status) = state.status)

\* C19 (as stated): whatever the sort key, recognized or not, the call
\* returns a view, and the view holds exactly the catalog items that pass
\* the query and status predicates, each once.
C19_MembershipIndependentOfSort ==
  (pc \in {"shown", "threw"}) =>
    /\ ViewShown
    /\ \A i \in 1..Len(state.mods) : Shown(state.mods[i]) <=> Selected(state.mods[i])
    /\ Len(els.cards) = Cardinality({ i \in 1..Len(state.mods) : Selected(state.mods[i]) })

\* C19 (as stated, for the keys the sorters object does not define): a view
\* returned for such a key is in the date_desc order.
C19_UnrecognizedKeyIsDateDesc ==
  (ViewShown /\ state.sort.s \notin SorterKeys) =>
    /\ NullsLast
    /\ \A i, j \in 1..Len(els.cards) :
         (i < j /\ els.cards[i].releaseDateMs # Null /\ els.cards[j].releaseDateMs # Null)
           => els.cards[i].releaseDateMs.n >= els.cards[j].releaseDateMs.n

\* C20: no query, status or sort change, history move or re-render changes
\* state.mods: once the catalog is loaded it keeps its items and their
\* order, also when the view shown is in another order.
C20_CatalogNeverMutated ==
  [][ (pc = "ready" /\ pc' = "ready") => state'.mods = state.mods ]_vars

\* C20 witness: after a history move, the whole catalog is shown sorted by
\* name, in another order than the catalog, which is as it was loaded.
C20_Witness ==
  /\ pc = "ready"
  /\ history.index < Len(history.entries)
  /\ state.sort = StrV(<<"name_asc">>)
  /\ Len(els.cards) = Len(state.mods)
  /\ Len(els.cards) >= 2
  /\ els.cards # state.mods
  /\ state.mods = validateAndNormalizeData(datafile)

\* Item i of the input is accepted and no accepted item before it has the
\* same normalized id.
Kept(i) ==
  /\ Accepted(i)
  /\ \A k \in 1..(i - 1) :
       ~(Accepted(k) /\ normalizeMod(InputItems[k]).id = normalizeMod(InputItems[i]).id)

\* The positions of the input whose records are kept.
KeptIndices == { i \in 1..Len(InputItems) : Kept(i) }

OtherShape(tree) ==
  /\ tree.t # "array"
  /\ ~(tree.t = "object" /\ "mods" \in DOMAIN tree.p /\ tree.p["mods"].t = "array")

\* C22: when the data file parses to a tree that is neither a sequence nor
\* an object with a mods sequence, the catalog is empty and the page is
\* Ready with the empty-catalog state shown and the error state hidden, and
\* stays so under the user's edits.
C22_OtherShapeGivesEmptyCatalog ==
  (Settled /\ trace.live = "ok" /\ OtherShape(datafile)) =>
    /\ pc = "ready"
    /\ state.mods = <<>>
    /\ els.cards = <<>>
    /\ ~els.emptyHidden
    /\ els.errorHidden
    /\ ~state.hasError

\* C22 witness: the data file parsed to an object whose mods is a string,
\* and the page is Ready with the empty-catalog state.
C22_Witness ==
  /\ pc = "ready"
  /\ trace.live = "ok"
  /\ datafile.t = "object"
  /\ Get(datafile, "mods").t = "string"
  /\ state.mods = <<>>
  /\ ~els.emptyHidden
  /\ els.errorHidden

\* The items of the catalog in memory whose status is the completed literal
\* up to letter case.
CompletedItems ==
  { i \in 1..Len(state.mods) : ToLowerCase(state.mods[i].status) = ToLowerCase(STATUS_COMPLETED) }

\* C23: in the Ready page the stats are those of the whole catalog in
\* memory, whatever part of it the view shows: total is its length,
\* completed the number of its items whose status is the completed literal
\* up to letter case, inProgress the number of the others; and no step
\* taken in the Ready page changes them.
C23_StatsOfWholeCatalog ==
  [][ (pc' = "ready") =>
        /\ state'.stats.total = Len(state'.mods)
        /\ state'.stats.completed = Cardinality(CompletedItems')
        /\ state'.stats.inProgress = Len(state'.mods) - Cardinality(CompletedItems')
        /\ (pc = "ready" => state'.stats = state.stats) ]_vars

\* C23 witness: with the completed status selected one card is shown, and
\* the stats count the two items of the catalog as completed, one of them
\* with the status in other letter case.
C23_Witness ==
  /\ pc = "ready"
  /\ state.status = StrV(STATUS_COMPLETED)
  /\ Len(els.cards) = 1
  /\ state.stats = [total |-> 2, completed |-> 2, inProgress |-> 0]
  /\ \E i \in 1..Len(state.mods) : state.mods[i].status # STATUS_COMPLETED

\* The view the engine computes for the state st.
ViewOf(st) == applyFiltersAndSort(st).result

\* C24: at most one debounce timer is pending; an input event on the search
\* box runs no cycle (state, URL, storage and cards stay) and leaves exactly
\* one timer pending, the one it set; the timer's expiry runs one cycle on
\* the control values of that moment and leaves no timer pending; a status
\* or sort change runs its cycle in the same step and leaves the timers.
C24_DebounceCoalesces ==
  [][ /\ Cardinality(timer'.pending) <= 1
      /\ TypeSearch =>
           /\ state' = state /\ history' = history /\ store' = store
           /\ els'.cards = els.cards
           /\ timer'.pending = {timer'.id}
      /\ DebounceFire =>
           /\ timer'.pending = {}
           /\ state'.query = StrV(Trim(els.search))
           /\ els'.cards = ViewOf(state')
           /\ Location'.q = state'.query
      /\ ChangeStatus =>
           /\ timer' = timer
           /\ state'.status = StrV(els'.statusFilter)
           /\ els'.cards = ViewOf(state')
           /\ Location'.status = state'.status
      /\ ChangeSort =>
           /\ timer' = timer
           /\ state'.sort = StrV(els'.sortBy)
           /\ els'.cards = ViewOf(state')
           /\ Location'.sort = state'.sort ]_vars

\* C24 witness: in the Ready page the timer of an input event has expired,
\* none is pending, and the cards are the view of the text the search box
\* held at that moment, which filters the catalog.
C24_Witness ==
  /\ pc = "ready"
  /\ timer.id # 0
  /\ timer.pending = {}
  /\ els.search = <<" ", "B">>
  /\ state.query = StrV(<<"B">>)
  /\ Len(els.cards) = 1
  /\ Len(state.mods) = 2

\* init() is before its end: the page is starting or Loading.
Unsettled == pc \in {"boot", "fetching", "reading"}

\* C25: when the fetch and the reading of its body settle, the page leaves
\* Loading for Ready or Error, and in Ready and in Error isLoading is false
\* and the loading indicator is hidden.
C25_LoadingEnds ==
  /\ Unsettled ~> Settled
  /\ [](Settled => (~state.isLoading /\ els.loadingHidden))

\* C25 witness: the fetch was made and rejected, nothing was cached, and
\* the page is in Error with the loading indicator hidden.
C25_Witness ==
  /\ pc = "error"
  /\ trace.fetches = 1
  /\ trace.live = "failed"
  /\ ~trace.cacheHit
  /\ ~state.isLoading
  /\ els.loadingHidden
  /\ ~els.errorHidden

\* C26: the data file is fetched at most once in a page load, and once
\* init() has ended in Ready or Error no event of the user (typing, a
\* status or sort change, a history move) brings the page back to Loading:
\* it stays in Ready or Error, isLoading stays false and the loading
\* indicator hidden.
C26_NoRetry ==
  [][ /\ trace'.fetches <= 1
      /\ Settled => (Settled' /\ ~state'.isLoading /\ els'.loadingHidden) ]_vars

\* C26 witness: the load failed after its one fetch; since then the user
\* has typed (the debounce timer expired), changed the status and gone back
\* in the history, and the page is still in Error and not Loading.
C26_Witness ==
  /\ pc = "error"
  /\ trace.fetches = 1
  /\ timer.id # 0 /\ timer.pending = {}
  /\ state.query = StrV(<<"B">>)
  /\ history.index < Len(history.entries)
  /\ history.entries[Len(history.entries)].status = StrV(STATUS_COMPLETED)
  /\ ~state.isLoading
  /\ els.loadingHidden

\* The page is Loading: init() awaits loadData().
Loading == pc \in {"fetching", "reading"}

\* C27: while the page is Loading the loading indicator is visible, the
\* error state is hidden and isLoading is set without hasError; and in no
\* state are the loading indicator and the error state both visible, or
\* isLoading and hasError both true.
C27_LoadingAndErrorExclusive ==
  /\ Loading => (state.isLoading /\ ~els.loadingHidden /\ els.errorHidden /\ ~state.hasError)
  /\ ~(~els.loadingHidden /\ ~els.errorHidden)
  /\ ~(state.isLoading /\ state.hasError)

\* C27 witness: a page loaded again after an earlier load is in Error
\* because js-yaml is missing: the error state is visible, the loading
\* indicator hidden.
C27_Witness ==
  /\ pc = "error"
  /\ loads = 2
  /\ ~jsyaml
  /\ state.hasError /\ ~state.isLoading
  /\ ~els.errorHidden /\ els.loadingHidden

\* C28: a handler of the search box or of the selects leaves the session
\* history with the entries it had, the same one current; only the URL of
\* the current entry may differ.
C28_EditsReplaceEntry ==
  [][ HandlerStep =>
        /\ Len(history'.entries) = Len(history.entries)
        /\ history'.index = history.index
        /\ \A i \in 1..Len(history.entries) :
             i # history.index => history'.entries[i] = history.entries[i] ]_vars

\* C28 witness: on the second entry of the history, which the router added,
\* a typed query and a status change were written to the URL; the entries
\* are still two and the first is the URL the visit started on.
C28_Witness ==
  /\ Len(history.entries) = 2
  /\ history.index = 2
  /\ history.entries[1] = UrlOfSearch(<<>>, <<>>)
  /\ Location.q = StrV(<<"B">>)
  /\ Location.status = StrV(STATUS_COMPLETED)
  /\ QueryTriple(state) = << Location.q, Location.status, Location.sort >>

\* The string truncateUnicode works on, and its length in code points: a
\* high surrogate directly followed by a low surrogate is one code point.
TruncInput == Trim(tin.str.s)
PairStarts(str) == { i \in 1..(Len(str) - 1) : str[i] = "hi" /\ str[i + 1] = "lo" }
CodePointCount(str) == Len(str) - Cardinality(PairStarts(str))

\* C29: truncateUnicode counts and cuts in code points: the result is marked
\* truncated exactly when the input has more than maxChars code points; an
\* untruncated result is the input; a truncated result is the ellipsis after
\* a prefix of the input of at most maxChars code points that does not end
\* between the two units of a character.
C29_TruncatesByCodePoints ==
  tDone =>
    /\ tout.truncated <=> (CodePointCount(TruncInput) > tin.maxChars)
    /\ ~tout.truncated => tout.text = TruncInput
    /\ tout.truncated =>
         \E k \in 0..Len(TruncInput) :
           /\ tout.text = SubSeq(TruncInput, 1, k) \o Ellipsis
           /\ CodePointCount(SubSeq(TruncInput, 1, k)) <= tin.maxChars
           /\ k \notin PairStarts(TruncInput)

\* A truncated result whose cut falls directly after a two-unit character.
C29_Witness ==
  /\ tDone
  /\ tout.truncated
  /\ \E k \in 2..Len(TruncInput) :
       /\ tout.text = SubSeq(TruncInput, 1, k) \o Ellipsis
       /\ (k - 1) \in PairStarts(TruncInput)
       /\ Len(TruncInput) > tin.maxChars
       /\ CodePointCount(TruncInput) > tin.maxChars

\* The first maxChars code points of the input, and the 0-based code point
\* positions of the spaces among them.
TruncCut == SubSeq(CodePoints(TruncInput), 1, tin.maxChars)
SpacePositions == { i \in 0..(Len(TruncCut) - 1) : TruncCut[i + 1] = << " " >> }
LastSpacePosition == CHOOSE i \in SpacePositions : \A j \in SpacePositions : j <= i

\* C30: with preserveWords, a truncated result backs off to the last space
\* of the cut when that space's position, counted in code points, is at
\* least 60% of maxChars (the exact 60% mark included), and keeps the whole
\* cut when the space lies before the 60% mark or there is none.  The
\* position is taken as the number of code points before the space; a space
\* whose position counted from one is the first to reach the mark is left
\* open.
C30_BacksOffFromSixtyPercent ==
  (tDone /\ tout.truncated /\ tin.preserveWords) =>
    /\ (SpacePositions # {} /\ 10 * LastSpacePosition >= 6 * tin.maxChars)
         => tout.text = Join(SubSeq(TruncCut, 1, LastSpacePosition), <<>>) \o Ellipsis
    /\ (SpacePositions = {} \/ 10 * (LastSpacePosition + 1) < 6 * tin.maxChars)
         => tout.text = Join(TruncCut, <<>>) \o Ellipsis

\* A numeric string: a decimal numeral, possibly padded with whitespace.
IsNumericString(v) == v.t = "string" /\ Trim(v.s) # <<>> /\ IsDigits(Trim(v.s))

\* C31: an accepted record's size_mb is non-null exactly when the raw size_mb
\* is a finite number (kept as is) or a numeric string (its value); every
\* other raw value, the empty and the whitespace-only string included, gives
\* null, and no raw size_mb rejects the record.
C31_SizeOnlyFromNumberOrNumericString ==
  (normDone /\ ~AnyMandatoryEmpty(raw)) =>
    /\ norm # Rejected
    /\ LET v == Get(raw, "size_mb") IN
         IF IsFiniteNumber(v) THEN norm.size_mb = v
         ELSE IF IsNumericString(v) THEN norm.size_mb = NumV(DecimalValue(Trim(v.s)))
         ELSE norm.size_mb = Null

\* A field is present when it is a string with a character that is not
\* whitespace; its value is the string without the surrounding whitespace.
IsPresent(v) == ~IsBlankValue(v)
DerivedUrl(explicit, identifier, template) ==
  IF IsPresent(explicit) THEN Trim(explicit.s)
  ELSE IF IsPresent(identifier) THEN template \o encodeURIComponent(Trim(identifier.s))
  ELSE <<>>

\* C32: for an accepted record, imageUrl is the image field when present,
\* whatever image_id holds, otherwise the view template with the
\* percent-encoded image_id when that is present, otherwise the empty string;
\* downloadUrl is derived in the same way from drive_url and file_id alone.
C32_UrlPrecedence ==
  (normDone /\ norm # Rejected) =>
    /\ norm.imageUrl = DerivedUrl(Get(raw, "image"), Get(raw, "image_id"), <<"view:">>)
    /\ norm.downloadUrl = DerivedUrl(Get(raw, "drive_url"), Get(raw, "file_id"), <<"download:">>)

\* A record with both image and image_id present keeps the image; its
\* download link, with no drive_url and no file_id, is empty.
C32_Witness ==
  /\ normDone
  /\ norm # Rejected
  /\ IsPresent(Get(raw, "image"))
  /\ IsPresent(Get(raw, "image_id"))
  /\ norm.imageUrl = Trim(Get(raw, "image").s)
  /\ norm.downloadUrl = <<>>

\* A record with file_id alone, holding a space, gets the download template
\* with the identifier percent-encoded.
C32_WitnessTemplate ==
  /\ normDone
  /\ norm # Rejected
  /\ ~IsPresent(Get(raw, "drive_url"))
  /\ Get(raw, "file_id") = StrV(<<"x", " ", "y">>)
  /\ norm.downloadUrl = <<"download:", "x", "%", "2", "0", "y">>

\* The page the current URL requests: the default page when the parameter
\* is absent or names no section.
PageOfUrl ==
  LET p == getRequestedPage(Location)
  IN IF p \in RouterPages THEN p ELSE DefaultPage

\* No navigation of the router is in flight.
RouterSettled == router.started /\ ~router.isNavigating

\* C33: once the navigations of the router have settled, currentPage and
\* the only section shown are the page the current URL requests, also when
\* a popstate or a click came while a navigation awaited its content.
\* Stated for the router alone, before init() of script.js has run, so that
\* every URL is one the browser or the router wrote.
C33_ShownPageFollowsUrl ==
  (RouterSettled /\ pc = "boot") =>
    /\ router.currentPage = PageOfUrl
    /\ router.shown = {PageOfUrl}

\* The indicators that are visible: the loading indicator, the error state
\* and the empty-state indicator.
VisibleIndicators ==
  { x \in {"loading", "error", "empty"} :
      \/ x = "loading" /\ ~els.loadingHidden
      \/ x = "error" /\ ~els.errorHidden
      \/ x = "empty" /\ ~els.emptyHidden }

\* C34: whatever the user does while the data loads, at most one of the
\* loading indicator, the error state and the empty-state indicator is
\* visible, and the empty-state indicator is hidden while the page is
\* loading or has failed.
C34_OneIndicatorAtATime ==
  /\ Cardinality(VisibleIndicators) <= 1
  /\ (Loading \/ pc = "error") => els.emptyHidden

\* C35: whenever the Ready page shows a view of the catalog, reading the
\* current URL with readStateFromURL gives the QueryState in memory, the
\* one the view was rendered from, also right after a startup that took the
\* state from the stored filters.
C35_UrlReproducesView ==
  (pc = "ready" /\ state.mods # <<>>) =>
    QueryTriple(readStateFromURL(state, Location)) = QueryTriple(state)

\* The q, status and sort parameters of a URL.
FilterParams(url) == << url.q, url.status, url.sort >>

\* C36: the router and the catalog leave each other's parameters in the URL:
\* a navigation of the router (from the constructor, a click or popstate)
\* writes a URL with the q, status and sort of the entry it started on, and
\* a handler of the catalog, run on a page with a router, writes a URL with
\* the page parameter the URL had.
C36_WritersKeepEachOthersParams ==
  [][ /\ (RouterConstruct \/ RouterClick)
          => FilterParams(Location') = FilterParams(Location)
      /\ (RouterBack \/ RouterForward)
          => FilterParams(Location') = FilterParams(history.entries[history'.index])
      /\ (router.started /\ HandlerStep)
          => Location'.page = Location.page ]_vars

====
